---- MODULE Spec2Model ----
(***************************************************************************)
(* Model of the segmentation-and-ranking pipeline of Round1B:              *)
(*   src/src/text_analyzer_lite.py   LightweightTextAnalyzer   (Lite_...)  *)
(*   src/src/section_ranker_lite.py  LightweightSectionRanker  (Lite_...)  *)
(*   src/src/text_analyzer.py        TextAnalyzer              (Full_...)  *)
(*   src/src/section_ranker.py       SectionRanker             (Full_...)  *)
(*                                                                         *)
(* A Python str is a sequence of one-character strings.  A Python dict is  *)
(* a record; d.get(k, default) is Get(d, k, default).  A float score is a  *)
(* fixed-point integer: relevance values in units of 1/10^4 (E4), their    *)
(* 0.4/0.6 blend in units of 1/10^5 (E5), final scores in units of 1/10^6  *)
(* (E6), scores rounded to 3 decimals in units of 1/10^3 (E3).  The only   *)
(* inexact step is the quotient of two word counts, floored to 1/10^4.     *)
(* TextAnalyzer is modelled in its configuration without scikit-learn and  *)
(* spaCy (HAS_SKLEARN = HAS_SPACY = False), the fallback branches of the   *)
(* source.                                                                 *)
(***************************************************************************)
EXTENDS Integers, Sequences, FiniteSets, TLC

VARIABLES
    variant,        \* "lite" | "full": which analyzer/ranker pair runs
    persona,        \* query string
    job,            \* query string
    documents,      \* input: sequence of processed documents
    analyzed_docs,  \* analyze_documents: the list built so far
    next_doc,       \* analyze_documents: index of the next document of the loop
    result,         \* rank_sections: the returned dict
    pc,             \* position of the pipeline
    content,        \* preview functions: the input string
    preview,        \* preview functions: the returned strings
    program,        \* "PDFProcessor" | "main": the code that reads the PDF files
    decoder,        \* "pdfplumber" | "PyPDF2": the library the file is read with
    pdf_files,      \* input: the PDF files
    json_files,     \* input of main: the number of .json files of the input directory
    next_pdf,       \* index of the file the loop over pdf_files is at
    page_number,    \* page_num of enumerate(pages, 1): the page the loop is at
    lines,          \* text.split('\n') of that page
    line_no,        \* the number of lines of the page already read
    current_section,\* the open section, or None
    section_text,   \* _identify_sections: the body lines of the open section
    pdf_sections,   \* sections: the sections emitted so far
    document_data,  \* _extract_with_pdfplumber, _extract_with_pypdf2: the document
    pdf_all_sections, \* main: all_sections, the sections of every file by file name
    output          \* main: the output_data written, or None

\* the state of the extraction of the PDF files
pdf_vars == <<program, decoder, pdf_files, json_files, next_pdf, page_number, lines,
              line_no, current_section, section_text, pdf_sections, document_data,
              pdf_all_sections, output>>

vars == <<variant, persona, job, documents, analyzed_docs, next_doc, result, pc,
          content, preview, pdf_vars>>

(***************************************************************************)
(* Python str and re primitives                                            *)
(***************************************************************************)
LowerLetters ==
    {"a","b","c","d","e","f","g","h","i","j","k","l","m",
     "n","o","p","q","r","s","t","u","v","w","x","y","z"}

UpperLetters ==
    {"A","B","C","D","E","F","G","H","I","J","K","L","M",
     "N","O","P","Q","R","S","T","U","V","W","X","Y","Z"}

Digits == {"0","1","2","3","4","5","6","7","8","9"}

Whitespace == {" ", "\n", "\t"}

LowerOf ==
    [c \in UpperLetters |->
        CASE c = "A" -> "a" [] c = "B" -> "b" [] c = "C" -> "c" [] c = "D" -> "d"
          [] c = "E" -> "e" [] c = "F" -> "f" [] c = "G" -> "g" [] c = "H" -> "h"
          [] c = "I" -> "i" [] c = "J" -> "j" [] c = "K" -> "k" [] c = "L" -> "l"
          [] c = "M" -> "m" [] c = "N" -> "n" [] c = "O" -> "o" [] c = "P" -> "p"
          [] c = "Q" -> "q" [] c = "R" -> "r" [] c = "S" -> "s" [] c = "T" -> "t"
          [] c = "U" -> "u" [] c = "V" -> "v" [] c = "W" -> "w" [] c = "X" -> "x"
          [] c = "Y" -> "y" [] c = "Z" -> "z"]

\* str.lower()
Lower(s) == [i \in 1..Len(s) |-> IF s[i] \in UpperLetters THEN LowerOf[s[i]] ELSE s[i]]

IsAlpha(c) == c \in LowerLetters \/ c \in UpperLetters

\* \w of the re module
IsWordChar(c) == IsAlpha(c) \/ c \in Digits \/ c = "_"

Range(f) == {f[i] : i \in DOMAIN f}

Min(a, b) == IF a <= b THEN a ELSE b

Max(a, b) == IF a >= b THEN a ELSE b

\* sub in s
Contains(s, sub) ==
    \E i \in 0..(Len(s) - Len(sub)) : \A k \in 1..Len(sub) : s[i + k] = sub[k]

\* s.startswith(p)
StartsWith(s, p) == Len(p) <= Len(s) /\ \A k \in 1..Len(p) : s[k] = p[k]

\* s.endswith(p)
EndsWith(s, p) ==
    Len(p) <= Len(s) /\ \A k \in 1..Len(p) : s[Len(s) - Len(p) + k] = p[k]

\* s[:n] for n >= 0
Prefix(s, n) == SubSeq(s, 1, Min(n, Len(s)))

\* s.rfind(c) for a one-character c: the 0-based index of its last occurrence, or -1
RFind(s, c) ==
    LET hits == {i \in 1..Len(s) : s[i] = c}
    IN  IF hits = {} THEN -1 ELSE (CHOOSE i \in hits : \A j \in hits : j <= i) - 1

\* s.strip()
Strip(s) ==
    IF \A i \in 1..Len(s) : s[i] \in Whitespace THEN <<>>
    ELSE LET first == CHOOSE i \in 1..Len(s) :
                          s[i] \notin Whitespace /\ \A j \in 1..(i - 1) : s[j] \in Whitespace
             last  == CHOOSE i \in 1..Len(s) :
                          s[i] \notin Whitespace /\ \A j \in (i + 1)..Len(s) : s[j] \in Whitespace
         IN  SubSeq(s, first, last)

\* the indices 1..n, in order
Indices(n) == [i \in 1..n |-> i]

\* the maximal runs of the characters of s whose mask entry is TRUE, in order
Runs(s, mask) ==
    LET IsStart(i) == mask[i] /\ (i = 1 \/ ~mask[i - 1])
        IsEnd(i)   == mask[i] /\ (i = Len(s) \/ ~mask[i + 1])
        starts     == SelectSeq(Indices(Len(s)), IsStart)
        ends       == SelectSeq(Indices(Len(s)), IsEnd)
    IN  [k \in 1..Len(starts) |-> SubSeq(s, starts[k], ends[k])]

\* s.split(): the maximal runs of non-whitespace characters, in order
Split(s) == Runs(s, [i \in 1..Len(s) |-> s[i] \notin Whitespace])

RECURSIVE JoinFrom(_, _, _, _)
JoinFrom(parts, sep, i, acc) ==
    IF i > Len(parts) THEN acc
    ELSE JoinFrom(parts, sep, i + 1, (IF i = 1 THEN acc ELSE acc \o sep) \o parts[i])

\* sep.join(parts)
Join(sep, parts) == JoinFrom(parts, sep, 1, <<>>)

\* re.sub(r'\s+', ' ', s.strip()): every run of whitespace becomes one space
CollapseWhitespace(s) ==
    LET t    == Strip(s)
        Keep(i) == t[i] \notin Whitespace \/ t[i - 1] \notin Whitespace
        kept == SelectSeq(Indices(Len(t)), Keep)
    IN  [k \in 1..Len(kept) |-> IF t[kept[k]] \in Whitespace THEN " " ELSE t[kept[k]]]

\* a maximal run of \w characters is matched by \b[a-zA-Z]{3,}\b exactly when it
\* is at least 3 characters long and all of them are letters
IsWordMatch(run) == Len(run) >= 3 /\ \A k \in 1..Len(run) : IsAlpha(run[k])

\* re.findall(r'\b[a-zA-Z]{3,}\b', s): the matches, in order
FindWords(s) == SelectSeq(Runs(s, [i \in 1..Len(s) |-> IsWordChar(s[i])]), IsWordMatch)

\* d.get(k, default)
Get(d, k, default) == IF k \in DOMAIN d THEN d[k] ELSE default

\* Python's None
None == [none |-> TRUE]

\* x is None
IsNone(x) == ToString(x) = ToString(None)

(***************************************************************************)
(* Fixed-point scores                                                      *)
(***************************************************************************)
\* a / b of two counts as a float, in units of 1/10^4 (floored)
RatioE4(a, b) == (a * 10000) \div b

\* round(x, 3) of a score in units of 1/10^6, in units of 1/10^3 (half up)
Round3FromE6(x) == (x + 500) \div 1000

\* round(x, 3) of a score in units of 1/10^7, in units of 1/10^3 (half up)
Round3FromE7(x) == (x + 5000) \div 10000

RECURSIVE SumFrom(_, _, _)
SumFrom(f, i, acc) == IF i > Len(f) THEN acc ELSE SumFrom(f, i + 1, acc + f[i])

\* sum(f) of a list of numbers
Sum(f) == SumFrom(f, 1, 0)

\* d.copy() followed by d.update(e) / d[k] = v
Update(d, e) == [k \in DOMAIN d \cup DOMAIN e |-> IF k \in DOMAIN e THEN e[k] ELSE d[k]]

\* the sequence xs with every element evaluated
AsTuple(xs) == xs \o <<>>

\* sorted(xs, key=lambda x: x.get(field, 0)), without reverse=True: ascending
SortedAsc(xs, field) ==
    LET items == AsTuple(xs)
        key   == AsTuple([i \in 1..Len(items) |-> Get(items[i], field, 0)])
        pos   == AsTuple([i \in 1..Len(items) |->
                     Cardinality({j \in 1..Len(items) :
                                     key[j] < key[i] \/ (key[j] = key[i] /\ j < i)})])
    IN  [k \in 1..Len(items) |-> items[CHOOSE i \in 1..Len(items) : pos[i] = k - 1]]

\* sorted(xs, key=lambda x: x.get(field, 0))[::-1]: descending, but elements
\* with equal keys in the reverse of their order in xs
SortedDescTiesReversed(xs, field) ==
    LET items == AsTuple(xs)
        key   == AsTuple([i \in 1..Len(items) |-> Get(items[i], field, 0)])
        pos   == AsTuple([i \in 1..Len(items) |->
                     Cardinality({j \in 1..Len(items) :
                                     key[j] > key[i] \/ (key[j] = key[i] /\ j > i)})])
    IN  [k \in 1..Len(items) |-> items[CHOOSE i \in 1..Len(items) : pos[i] = k - 1]]

\* sorted(xs, key=lambda x: x.get(field, 0), reverse=True): descending by the
\* field; elements with equal keys keep their order in xs (Python's sort is
\* stable, also with reverse=True)
SortedDesc(xs, field) ==
    LET items == AsTuple(xs)
        key   == AsTuple([i \in 1..Len(items) |-> Get(items[i], field, 0)])
        pos   == AsTuple([i \in 1..Len(items) |->
                     Cardinality({j \in 1..Len(items) :
                                     key[j] > key[i] \/ (key[j] = key[i] /\ j < i)})])
    IN  [k \in 1..Len(items) |-> items[CHOOSE i \in 1..Len(items) : pos[i] = k - 1]]

(***************************************************************************)
(* LightweightTextAnalyzer            src/src/text_analyzer_lite.py        *)
(***************************************************************************)
kw_action ==
    << <<"p","l","a","n">>, <<"o","r","g","a","n","i","z","e">>, <<"c","r","e","a","t","e">>,
       <<"b","u","i","l","d">>, <<"d","e","v","e","l","o","p">>, <<"m","a","n","a","g","e">>,
       <<"e","x","e","c","u","t","e">>, <<"i","m","p","l","e","m","e","n","t">> >>

kw_experience ==
    << <<"e","x","p","e","r","i","e","n","c","e">>, <<"a","c","t","i","v","i","t","y">>,
       <<"s","e","r","v","i","c","e">>, <<"p","r","o","c","e","s","s">>,
       <<"s","o","l","u","t","i","o","n">>, <<"a","p","p","r","o","a","c","h">>,
       <<"m","e","t","h","o","d">> >>

kw_quality ==
    << <<"b","e","s","t">>, <<"t","o","p">>, <<"e","x","c","e","l","l","e","n","t">>,
       <<"q","u","a","l","i","t","y">>, <<"p","r","e","m","i","u","m">>,
       <<"r","e","c","o","m","m","e","n","d","e","d">>, <<"p","o","p","u","l","a","r">>,
       <<"e","f","f","e","c","t","i","v","e">> >>

kw_practical ==
    << <<"g","u","i","d","e">>, <<"t","i","p","s">>, <<"h","o","w">>, <<"s","t","e","p","s">>,
       <<"i","n","s","t","r","u","c","t","i","o","n","s">>, <<"a","d","v","i","c","e">>,
       <<"i","n","f","o","r","m","a","t","i","o","n">>, <<"d","e","t","a","i","l","s">> >>

kw_context ==
    << <<"i","m","p","o","r","t","a","n","t">>, <<"k","e","y">>, <<"m","a","i","n">>,
       <<"e","s","s","e","n","t","i","a","l">>, <<"c","r","i","t","i","c","a","l">>,
       <<"s","i","g","n","i","f","i","c","a","n","t">>, <<"r","e","l","e","v","a","n","t">>,
       <<"u","s","e","f","u","l">> >>

kw_outcome ==
    << <<"r","e","s","u","l","t">>, <<"s","u","c","c","e","s","s">>,
       <<"b","e","n","e","f","i","t">>, <<"a","d","v","a","n","t","a","g","e">>,
       <<"v","a","l","u","e">>, <<"i","m","p","r","o","v","e","m","e","n","t">>,
       <<"a","c","h","i","e","v","e","m","e","n","t">> >>

\* self.stop_words
stop_words ==
    { <<"t","h","e">>, <<"a","n","d">>, <<"o","r">>, <<"b","u","t">>, <<"i","n">>, <<"o","n">>,
      <<"a","t">>, <<"t","o">>, <<"f","o","r">>, <<"o","f">>, <<"w","i","t","h">>, <<"b","y">>,
      <<"a">>, <<"a","n">>, <<"i","s">>, <<"a","r","e">>, <<"w","a","s">>, <<"w","e","r","e">>,
      <<"b","e">>, <<"b","e","e","n">>, <<"h","a","v","e">>, <<"h","a","s">>, <<"h","a","d">>,
      <<"d","o">>, <<"d","o","e","s">>, <<"d","i","d">>, <<"c","a","n">>,
      <<"c","o","u","l","d">>, <<"w","i","l","l">>, <<"w","o","u","l","d">>,
      <<"s","h","o","u","l","d">>, <<"m","a","y">>, <<"m","i","g","h","t">> }

\* the word lists of _classify_document_type
Lite_instructional_words ==
    { <<"g","u","i","d","e">>, <<"t","i","p","s">>, <<"h","o","w">>,
      <<"i","n","s","t","r","u","c","t","i","o","n","s">> }

Lite_overview_words ==
    { <<"o","v","e","r","v","i","e","w">>, <<"i","n","t","r","o","d","u","c","t","i","o","n">>,
      <<"a","b","o","u","t">>, <<"s","u","m","m","a","r","y">> }

Lite_reference_words ==
    { <<"l","i","s","t">>, <<"o","p","t","i","o","n","s">>, <<"c","h","o","i","c","e","s">>,
      <<"v","a","r","i","e","t","i","e","s">> }

Lite_comprehensive_words ==
    { <<"d","e","t","a","i","l","e","d">>,
      <<"c","o","m","p","r","e","h","e","n","s","i","v","e">>,
      <<"c","o","m","p","l","e","t","e">>, <<"f","u","l","l">> }

\* max_keywords of _extract_keywords_fast
lite_max_keywords == 8

\* a sentence is a subsection from this many words on
lite_min_sentence_words == 10

\* only the first sentences are looked at
lite_max_sentences == 10

\* at most this many subsections per section
lite_max_subsections_per_section == 5
\* self.universal_keywords: the keyword lists in the order of the categories
universal_keywords ==
    <<kw_action, kw_experience, kw_quality, kw_practical, kw_context, kw_outcome>>

\* base_score of _calculate_keyword_relevance, in units of 1/10^4
Lite_base_score(text_words, ref_words) ==
    RatioE4(Cardinality(text_words \cap ref_words),
            Max(Cardinality(text_words), Cardinality(ref_words)))

\* quality_boost of _calculate_keyword_relevance, in units of 1/10^4: per
\* category min(matches * 0.08, 0.3), matches the number of its keywords in text
Lite_quality_boost(text) ==
    LET matches == [c \in 1..Len(universal_keywords) |->
                       Cardinality({k \in 1..Len(universal_keywords[c]) :
                                       Contains(text, universal_keywords[c][k])})]
    IN  Sum([c \in 1..Len(universal_keywords) |->
                IF matches[c] > 0 THEN Min(matches[c] * 800, 3000) ELSE 0])

\* _calculate_keyword_relevance that returns base_score + quality_boost without
\* min(..., 1.0)
Lite_calculate_keyword_relevance_uncapped(text, reference_text) ==
    IF text = <<>> \/ reference_text = <<>> THEN 0
    ELSE LET text_words == Range(FindWords(Lower(text)))
             ref_words  == Range(FindWords(Lower(reference_text)))
         IN  IF text_words = {} \/ ref_words = {} THEN 0
             ELSE Lite_base_score(text_words, ref_words) + Lite_quality_boost(text)

\* _calculate_keyword_relevance without its two early returns; max(len(
\* text_words), len(ref_words), 1) keeps the division defined
Lite_calculate_keyword_relevance_unguarded(text, reference_text) ==
    LET text_words == Range(FindWords(Lower(text)))
        ref_words  == Range(FindWords(Lower(reference_text)))
        base_score == RatioE4(Cardinality(text_words \cap ref_words),
                              Max(1, Max(Cardinality(text_words), Cardinality(ref_words))))
    IN  Min(base_score + Lite_quality_boost(text), 10000)

\* _calculate_keyword_relevance(text, reference_text), in units of 1/10^4
Lite_calculate_keyword_relevance(text, reference_text) ==
    IF text = <<>> \/ reference_text = <<>> THEN 0
    ELSE LET text_words == Range(FindWords(Lower(text)))
             ref_words  == Range(FindWords(Lower(reference_text)))
         IN  IF text_words = {} \/ ref_words = {} THEN 0
             ELSE Min(Lite_base_score(text_words, ref_words) + Lite_quality_boost(text), 10000)

\* [word for word, _ in Counter(ws).most_common(n)]: by descending count, words
\* of equal count in the order of their first occurrence
MostCommon(ws, n) ==
    LET IsFirst(i) == \A j \in 1..(i - 1) : ws[j] # ws[i]
        firsts     == SelectSeq(Indices(Len(ws)), IsFirst)
        counter    == [k \in 1..Len(firsts) |->
                          [word  |-> ws[firsts[k]],
                           count |-> Cardinality({i \in 1..Len(ws) : ws[i] = ws[firsts[k]]})]]
        ordered    == Prefix(SortedDesc(counter, "count"), n)
    IN  [k \in 1..Len(ordered) |-> ordered[k].word]

\* _extract_keywords_fast that filters the stop words out of the most frequent
\* words instead of counting the words that are no stop words
Lite_extract_keywords_fast_filter_last(text) ==
    IF text = <<>> THEN <<>>
    ELSE LET NotStop(w) == w \notin stop_words
         IN  SelectSeq(MostCommon(FindWords(Lower(text)), lite_max_keywords), NotStop)

\* _extract_keywords_fast(text, max_keywords=8)
Lite_extract_keywords_fast(text) ==
    IF text = <<>> THEN <<>>
    ELSE LET NotStop(w) == w \notin stop_words
         IN  MostCommon(SelectSeq(FindWords(Lower(text)), NotStop), lite_max_keywords)

SentenceEnds == {".", "!", "?"}

\* re.split(r'[.!?]+', s): the pieces between the runs of sentence ends, the
\* empty pieces at either end included
SplitSentences(s) ==
    LET sep(i)     == s[i] \in SentenceEnds
        IsStart(i) == sep(i) /\ (i = 1 \/ ~sep(i - 1))
        IsEnd(i)   == sep(i) /\ (i = Len(s) \/ ~sep(i + 1))
        starts     == SelectSeq(Indices(Len(s)), IsStart)
        ends       == SelectSeq(Indices(Len(s)), IsEnd)
        n          == Len(starts)
    IN  [k \in 1..(n + 1) |->
            SubSeq(s, IF k = 1 THEN 1 ELSE ends[k - 1] + 1,
                      IF k = n + 1 THEN Len(s) ELSE starts[k] - 1)]

RECURSIVE Lite_subsections_from(_, _, _)
Lite_subsections_from(sentences, i, acc) ==
    IF i > Len(sentences) THEN acc
    ELSE LET sentence == Strip(sentences[i])
             n        == Len(Split(sentence))
         IN  Lite_subsections_from(sentences, i + 1,
                 IF n >= lite_min_sentence_words
                 THEN Append(acc, [content |-> sentence, position |-> i - 1, word_count |-> n])
                 ELSE acc)

\* _extract_subsections_fast that returns subsections, not subsections[:5]
Lite_extract_subsections_fast_uncapped(c) ==
    IF c = <<>> THEN <<>>
    ELSE Lite_subsections_from(Prefix(SplitSentences(c), lite_max_sentences), 1, <<>>)

\* _extract_subsections_fast(content)
Lite_extract_subsections_fast(c) ==
    IF c = <<>> THEN <<>>
    ELSE Prefix(Lite_subsections_from(Prefix(SplitSentences(c), lite_max_sentences), 1, <<>>),
                lite_max_subsections_per_section)

\* any(word in text for word in words)
AnyIn(words, text) == \E w \in words : Contains(text, w)

\* _classify_document_type(document)['document_type']
Lite_classify_document_type(document) ==
    LET filename == Lower(Get(document, "filename", <<>>))
        sections == Prefix(Get(document, "sections", <<>>), 3)
        content_sample ==
            Lower(Join(<<" ">>, [i \in 1..Len(sections) |->
                                     Prefix(Get(sections[i], "content", <<>>), 200)]))
        text == filename \o content_sample
    IN  IF AnyIn(Lite_instructional_words, text) THEN "instructional"
        ELSE IF AnyIn(Lite_overview_words, text) THEN "overview"
        ELSE IF AnyIn(Lite_reference_words, text) THEN "reference"
        ELSE IF AnyIn(Lite_comprehensive_words, text) THEN "comprehensive"
        ELSE "informational"

\* the weights of persona and job exchanged: persona_score * 0.6 + job_score * 0.4
CombineSwapped(persona_score, job_score) == persona_score * 6 + job_score * 4

\* combined_relevance = persona_score * 0.4 + job_score * 0.6, in units of 1/10^5
Combine(persona_score, job_score) == persona_score * 4 + job_score * 6

\* _analyze_section_fast(section, persona, job_to_be_done)
Lite_analyze_section_fast(section, p, j) ==
    LET c             == Lower(Get(section, "content", <<>>))
        title         == Lower(Get(section, "title", <<>>))
        combined_text == title \o <<" ">> \o c
        persona_score == Lite_calculate_keyword_relevance(combined_text, Lower(p))
        job_score     == Lite_calculate_keyword_relevance(combined_text, Lower(j))
    IN  Update(section,
               [keywords           |-> Lite_extract_keywords_fast(combined_text),
                persona_relevance  |-> persona_score,
                job_relevance      |-> job_score,
                combined_relevance |-> Combine(persona_score, job_score),
                subsections        |-> Lite_extract_subsections_fast(c)])

\* _analyze_single_document(document, persona, job_to_be_done)
Lite_analyze_single_document(document, p, j) ==
    LET sections == Get(document, "sections", <<>>)
    IN  Update(document,
               [document_features |->
                    [document_type |-> Lite_classify_document_type(document),
                     classification_confidence |-> 7],
                analyzed_sections |->
                    [i \in 1..Len(sections) |-> Lite_analyze_section_fast(sections[i], p, j)]])

(***************************************************************************)
(* LightweightSectionRanker           src/src/section_ranker_lite.py       *)
(***************************************************************************)
\* self.max_sections
max_sections == 10

\* self.max_subsections
max_subsections == 12

\* max_length of _create_preview
lite_preview_max_length == 120

\* max_length of _clean_content
lite_content_max_length == 150

\* the title length limit of _clean_title
lite_title_max_length == 100

\* the number of subsections of a section that rank_sections looks at
lite_subsections_per_section == 2

\* the word_count from which rank_sections takes a subsection
lite_min_word_count == 15

Ellipsis == <<".", ".", ".">>

\* the word lists of _get_document_type_boost
Boost_instructional_words ==
    { <<"p","l","a","n">>, <<"o","r","g","a","n","i","z","e">>, <<"c","r","e","a","t","e">>,
      <<"b","u","i","l","d">> }

Boost_comprehensive_words ==
    { <<"c","o","m","p","r","e","h","e","n","s","i","v","e">>,
      <<"c","o","m","p","l","e","t","e">>, <<"d","e","t","a","i","l","e","d">> }

Boost_reference_words ==
    { <<"f","i","n","d">>, <<"c","h","o","o","s","e">>, <<"s","e","l","e","c","t">>,
      <<"o","p","t","i","o","n","s">> }

Boost_overview_words ==
    { <<"u","n","d","e","r","s","t","a","n","d">>, <<"l","e","a","r","n">>,
      <<"o","v","e","r","v","i","e","w">> }

\* the alternatives of the prefix pattern of _clean_title
title_prefixes ==
    << <<"s","e","c","t","i","o","n">>, <<"c","h","a","p","t","e","r">>, <<"p","a","r","t">> >>

\* the defaults of the .get calls of the ranker
Unknown == <<"u","n","k","n","o","w","n">>

Untitled == <<"U","n","t","i","t","l","e","d">>

SectionTitle == <<"S","e","c","t","i","o","n">>

UntitledSection ==
    << "U","n","t","i","t","l","e","d"," ","S","e","c","t","i","o","n" >>

\* _get_document_type_boost(doc_type, job_to_be_done), in units of 1/100
Lite_get_document_type_boost(doc_type, j) ==
    LET job_lower == Lower(j)
    IN  CASE doc_type = "instructional" ->
                 (IF AnyIn(Boost_instructional_words, job_lower) THEN 25 ELSE 10)
          [] doc_type = "comprehensive" ->
                 (IF AnyIn(Boost_comprehensive_words, job_lower) THEN 30 ELSE 15)
          [] doc_type = "reference" ->
                 (IF AnyIn(Boost_reference_words, job_lower) THEN 20 ELSE 10)
          [] doc_type = "overview" ->
                 (IF AnyIn(Boost_overview_words, job_lower) THEN 15 ELSE 10)
          [] doc_type = "informational" -> 20
          [] OTHER -> 15

\* the least index j >= i of s whose character is not in class (Len(s) + 1 if none)
SkipWhile(s, i, class) ==
    CHOOSE j \in i..(Len(s) + 1) :
        /\ j = Len(s) + 1 \/ s[j] \notin class
        /\ \A k \in i..(j - 1) : s[k] \in class

\* re.sub(r'^(section|chapter|part)\s*\d*:?\s*', '', s, flags=re.IGNORECASE)
RemoveTitlePrefix(s) ==
    LET hits == {k \in 1..Len(title_prefixes) : StartsWith(Lower(s), title_prefixes[k])}
    IN  IF hits = {} THEN s
        ELSE LET k  == CHOOSE h \in hits : \A g \in hits : h <= g
                 a  == SkipWhile(s, Len(title_prefixes[k]) + 1, Whitespace)
                 b  == SkipWhile(s, a, Digits)
                 c  == IF b <= Len(s) /\ s[b] = ":" THEN b + 1 ELSE b
                 d  == SkipWhile(s, c, Whitespace)
             IN  SubSeq(s, d, Len(s))

\* _clean_title(title)
Lite_clean_title(title) ==
    IF title = <<>> THEN UntitledSection
    ELSE LET cleaned == CollapseWhitespace(RemoveTitlePrefix(Strip(title)))
         IN  IF Len(cleaned) > lite_title_max_length
             THEN Prefix(cleaned, lite_title_max_length) \o Ellipsis
             ELSE cleaned

\* _create_preview(content, max_length=120)
Lite_create_preview(c) ==
    IF c = <<>> THEN <<>>
    ELSE LET cleaned == CollapseWhitespace(c)
         IN  IF Len(cleaned) > lite_preview_max_length
             THEN Prefix(cleaned, lite_preview_max_length) \o Ellipsis
             ELSE cleaned

\* _clean_content(content, max_length=150)
Lite_clean_content(c) ==
    IF c = <<>> THEN <<>>
    ELSE LET cleaned == CollapseWhitespace(c)
         IN  IF Len(cleaned) > lite_content_max_length
             THEN Prefix(cleaned, lite_content_max_length) \o Ellipsis
             ELSE cleaned

\* final_score of _score_section_optimized, in units of 1/10^6:
\*   base_score * 0.7 + doc_type_boost * 0.2 + position_boost * 0.05 + length_score * 0.05
\* with position_boost = max(0, (10 - position) * 0.02) and
\* length_score = min(content_length / 500, 1.0) if content_length > 50 else 0.1
Lite_final_score(base_score, doc_type_boost, position, content_length) ==
    base_score * 7
    + doc_type_boost * 2000
    + Max(0, (10 - position) * 1000)
    + (IF content_length > 50 THEN Min(content_length * 100, 50000) ELSE 5000)

\* _score_section_optimized(section, filename, doc_type, persona, job_to_be_done)
Lite_score_section_optimized(section, filename, doc_type, p, j) ==
    Update(section,
           [final_relevance_score |->
                Round3FromE6(Lite_final_score(Get(section, "combined_relevance", 0),
                                              Lite_get_document_type_boost(doc_type, j),
                                              Get(section, "position", 0),
                                              Len(Get(section, "content", <<>>)))),
            document        |-> filename,
            page_number     |-> Get(section, "page_number", 1),
            section_title   |-> Lite_clean_title(Get(section, "title", UntitledSection)),
            content_preview |-> Lite_create_preview(Get(section, "content", <<>>))])

\* parent_relevance * quality_score of _score_subsection_optimized, in units of
\* 1/10^7, with quality_score = min(word_count / 20, 1.0) if word_count > 5 else 0.1
Lite_subsection_score(parent_relevance, word_count) ==
    IF word_count > 5 THEN parent_relevance * Min(word_count * 5, 100)
    ELSE parent_relevance * 10

\* _score_subsection_optimized(subsection, parent_section, filename, doc_type)
Lite_score_subsection_optimized(subsection, parent_section, filename, doc_type) ==
    [document        |-> filename,
     section_title   |-> Lite_clean_title(Get(parent_section, "title", SectionTitle)),
     refined_text    |-> Lite_clean_content(Get(subsection, "content", <<>>)),
     page_number     |-> Get(parent_section, "page_number", 1),
     relevance_score |->
         Round3FromE7(Lite_subsection_score(Get(parent_section, "combined_relevance", 0),
                                            Get(subsection, "word_count", 0)))]

\* _rank_and_format_sections_optimized with enumerate(sorted_sections), which
\* counts from 0
Lite_rank_and_format_sections_from_zero(sections) ==
    LET sorted_sections == SortedDesc(sections, "final_relevance_score")
    IN  [i \in 1..Len(sorted_sections) |->
            [document        |-> Get(sorted_sections[i], "document", Unknown),
             page_number     |-> Get(sorted_sections[i], "page_number", 1),
             section_title   |-> Get(sorted_sections[i], "section_title", Untitled),
             importance_rank |-> i - 1,
             relevance_score |-> Get(sorted_sections[i], "final_relevance_score", 0),
             content_preview |-> Get(sorted_sections[i], "content_preview", <<>>)]]

\* _rank_and_format_sections_optimized(sections)
Lite_rank_and_format_sections_optimized(sections) ==
    LET sorted_sections == SortedDesc(sections, "final_relevance_score")
    IN  [i \in 1..Len(sorted_sections) |->
            [document        |-> Get(sorted_sections[i], "document", Unknown),
             page_number     |-> Get(sorted_sections[i], "page_number", 1),
             section_title   |-> Get(sorted_sections[i], "section_title", Untitled),
             importance_rank |-> i,
             relevance_score |-> Get(sorted_sections[i], "final_relevance_score", 0),
             content_preview |-> Get(sorted_sections[i], "content_preview", <<>>)]]

\* _rank_and_format_subsections_optimized(subsections)
Lite_rank_and_format_subsections_optimized(subsections) ==
    LET sorted_subsections == SortedDesc(subsections, "relevance_score")
    IN  [i \in 1..Len(sorted_subsections) |->
            [document        |-> Get(sorted_subsections[i], "document", Unknown),
             section_title   |-> Get(sorted_subsections[i], "section_title", SectionTitle),
             refined_text    |-> Get(sorted_subsections[i], "refined_text", <<>>),
             page_number     |-> Get(sorted_subsections[i], "page_number", 1),
             importance_rank |-> i,
             relevance_score |-> Get(sorted_subsections[i], "relevance_score", 0)]]

RECURSIVE ConcatFrom(_, _, _)
ConcatFrom(lists, i, acc) ==
    IF i > Len(lists) THEN acc ELSE ConcatFrom(lists, i + 1, acc \o lists[i])

\* the concatenation of a list of lists
Concat(lists) == ConcatFrom(lists, 1, <<>>)

\* the enhanced sections rank_sections collects from one document, in order
Lite_collect_sections(doc, p, j) ==
    LET filename == Get(doc, "filename", Unknown)
        doc_type == Get(Get(doc, "document_features", <<>>), "document_type", "general")
        sections == Get(doc, "analyzed_sections", <<>>)
    IN  [i \in 1..Len(sections) |->
            Lite_score_section_optimized(sections[i], filename, doc_type, p, j)]

\* the subsections collected from one section if the word count is tested before
\* the first two are taken
Lite_collect_subsections_filter_first(section, filename, doc_type) ==
    LET HighQuality(sub) == Get(sub, "word_count", 0) >= lite_min_word_count
        candidates == Prefix(SelectSeq(Get(section, "subsections", <<>>), HighQuality),
                             lite_subsections_per_section)
    IN  [i \in 1..Len(candidates) |->
            Lite_score_subsection_optimized(candidates[i], section, filename, doc_type)]

\* the enhanced subsections rank_sections collects from one section, in order:
\* of its first two subsections, those of at least 15 words
Lite_collect_subsections(section, filename, doc_type) ==
    LET HighQuality(sub) == Get(sub, "word_count", 0) >= lite_min_word_count
        candidates == SelectSeq(Prefix(Get(section, "subsections", <<>>),
                                       lite_subsections_per_section), HighQuality)
    IN  [i \in 1..Len(candidates) |->
            Lite_score_subsection_optimized(candidates[i], section, filename, doc_type)]

\* the enhanced subsections rank_sections collects from one document, in order
Lite_collect_doc_subsections(doc) ==
    LET filename == Get(doc, "filename", Unknown)
        doc_type == Get(Get(doc, "document_features", <<>>), "document_type", "general")
        sections == Get(doc, "analyzed_sections", <<>>)
    IN  Concat([i \in 1..Len(sections) |->
                   Lite_collect_subsections(sections[i], filename, doc_type)])

\* rank_sections that cuts all_sections and all_subsections to the limits before
\* it sorts them
Lite_rank_sections_truncate_first(analyzed_documents, p, j) ==
    LET all_sections ==
            Concat([d \in 1..Len(analyzed_documents) |->
                       Lite_collect_sections(analyzed_documents[d], p, j)])
        all_subsections ==
            Concat([d \in 1..Len(analyzed_documents) |->
                       Lite_collect_doc_subsections(analyzed_documents[d])])
    IN  [sections    |-> Lite_rank_and_format_sections_optimized(
                             Prefix(all_sections, max_sections)),
         subsections |-> Lite_rank_and_format_subsections_optimized(
                             Prefix(all_subsections, max_subsections))]

\* _score_section_optimized raises on a section of the batch: 10 - position
\* has no meaning for a position that is None
Lite_rank_raises(analyzed_documents) ==
    \E d \in 1..Len(analyzed_documents) :
        \E k \in 1..Len(analyzed_documents[d].analyzed_sections) :
            IsNone(Get(analyzed_documents[d].analyzed_sections[k], "position", 0))

\* rank_sections(analyzed_documents, persona, job_to_be_done): the whole body
\* is one try block, and its except clause returns two empty lists
Lite_rank_sections(analyzed_documents, p, j) ==
    LET all_sections ==
            Concat([d \in 1..Len(analyzed_documents) |->
                       Lite_collect_sections(analyzed_documents[d], p, j)])
        all_subsections ==
            Concat([d \in 1..Len(analyzed_documents) |->
                       Lite_collect_doc_subsections(analyzed_documents[d])])
    IN  IF Lite_rank_raises(analyzed_documents)
        THEN [sections |-> <<>>, subsections |-> <<>>]
        ELSE [sections    |-> Prefix(Lite_rank_and_format_sections_optimized(all_sections),
                                     max_sections),
              subsections |-> Prefix(Lite_rank_and_format_subsections_optimized(all_subsections),
                                     max_subsections)]

(***************************************************************************)
(* TextAnalyzer                       src/src/text_analyzer.py             *)
(* (HAS_SKLEARN = HAS_SPACY = False: self.vectorizer is None, use_spacy is *)
(* False, so _calculate_relevance is _calculate_word_overlap, _extract_    *)
(* keywords is its word-frequency fallback and _extract_entities is [])    *)
(***************************************************************************)
\* max_keywords of _extract_keywords
full_max_keywords == 10

\* max_keywords of _extract_keywords for a subsection
full_subsection_max_keywords == 5

\* a paragraph is a subsection when it is longer than this
full_min_paragraph_length == 100

\* stop_words of _extract_keywords
Full_stop_words ==
    { <<"t","h","e">>, <<"a","n","d">>, <<"o","r">>, <<"b","u","t">>, <<"i","n">>, <<"o","n">>,
      <<"a","t">>, <<"t","o">>, <<"f","o","r">>, <<"o","f">>, <<"w","i","t","h">>, <<"b","y">> }

\* the indicator lists of _classify_document_type
research_indicators ==
    { <<"a","b","s","t","r","a","c","t">>, <<"m","e","t","h","o","d","o","l","o","g","y">>,
      <<"r","e","s","u","l","t","s">>, <<"c","o","n","c","l","u","s","i","o","n">>,
      <<"r","e","f","e","r","e","n","c","e","s">>, <<"c","i","t","a","t","i","o","n">> }

business_indicators ==
    { <<"r","e","v","e","n","u","e">>, <<"p","r","o","f","i","t">>,
      <<"q","u","a","r","t","e","r","l","y">>, <<"a","n","n","u","a","l">>,
      <<"f","i","n","a","n","c","i","a","l">>, <<"m","a","r","k","e","t">> }

education_indicators ==
    { <<"c","h","a","p","t","e","r">>, <<"e","x","e","r","c","i","s","e">>,
      <<"e","x","a","m","p","l","e">>, <<"d","e","f","i","n","i","t","i","o","n">>,
      <<"t","h","e","o","r","e","m">>, <<"p","r","a","c","t","i","c","e">> }

\* the punctuation _clean_text keeps: [^\w\s.,;:!?()-] is replaced by a space
KeptPunctuation == {".", ",", ";", ":", "!", "?", "(", ")", "-"}

\* _clean_text(text)
Full_clean_text(text) ==
    IF text = <<>> THEN <<>>
    ELSE LET cleaned == CollapseWhitespace(text)
         IN  [i \in 1..Len(cleaned) |->
                 IF IsWordChar(cleaned[i]) \/ cleaned[i] \in Whitespace
                    \/ cleaned[i] \in KeptPunctuation
                 THEN cleaned[i] ELSE " "]

\* _extract_keywords(text, max_keywords), its word-frequency fallback
Full_extract_keywords(text, max_keywords) ==
    IF text = <<>> THEN <<>>
    ELSE LET words   == FindWords(Lower(Full_clean_text(text)))
             NotStop(w) == w \notin Full_stop_words
         IN  Prefix(SelectSeq(MostCommon(words, max_keywords * 2), NotStop), max_keywords)

\* _calculate_word_overlap(text1, text2), in units of 1/10^4
Full_calculate_word_overlap(text1, text2) ==
    LET words1 == Range(FindWords(Lower(text1)))
        words2 == Range(FindWords(Lower(text2)))
    IN  IF words1 = {} \/ words2 = {} THEN 0
        ELSE RatioE4(Cardinality(words1 \cap words2), Cardinality(words1 \cup words2))

\* _calculate_relevance(text, reference_text), in units of 1/10^4
Full_calculate_relevance(text, reference_text) ==
    IF text = <<>> \/ reference_text = <<>> THEN 0
    ELSE Full_calculate_word_overlap(text, reference_text)

\* re.sub(r'(\w)- (\w)', r'\1\2', s): the matches are taken left to right and
\* do not overlap, so of a chain of candidates 3 apart every second one matches
RemoveHyphenation(s) ==
    LET Cand(i) == /\ i >= 1 /\ i + 3 <= Len(s)
                   /\ IsWordChar(s[i]) /\ s[i + 1] = "-" /\ s[i + 2] = " "
                   /\ IsWordChar(s[i + 3])
        Chain(i) == CHOOSE n \in 0..Len(s) :
                        /\ \A m \in 1..n : Cand(i - 3 * m)
                        /\ ~Cand(i - 3 * (n + 1))
        Match(i) == Cand(i) /\ Chain(i) % 2 = 0
        Keep(i)  == ~Match(i - 1) /\ ~Match(i - 2)
        kept     == SelectSeq(Indices(Len(s)), Keep)
    IN  [k \in 1..Len(kept) |-> s[kept[k]]]

ClosingPunctuation == {".", ",", ";", ":", "!", "?"}

\* re.sub(r'\s+([.,;:!?])', r'\1', s)
RemoveSpaceBeforePunctuation(s) ==
    LET Dropped(i) == /\ s[i] \in Whitespace
                      /\ LET j == SkipWhile(s, i, Whitespace)
                         IN  j <= Len(s) /\ s[j] \in ClosingPunctuation
        NotDropped(i) == ~Dropped(i)
        kept == SelectSeq(Indices(Len(s)), NotDropped)
    IN  [k \in 1..Len(kept) |-> s[kept[k]]]

\* _refine_text(text)
Full_refine_text(text) ==
    RemoveSpaceBeforePunctuation(RemoveHyphenation(CollapseWhitespace(text)))

\* s.split('\n\n'): the separators are taken left to right, so in a run of
\* newlines every second one starts a separator
SplitParagraphs(s) ==
    LET nl(i)     == i >= 1 /\ i <= Len(s) /\ s[i] = "\n"
        Before(i) == CHOOSE n \in 0..Len(s) :
                         (\A m \in 1..n : nl(i - m)) /\ ~nl(i - (n + 1))
        IsStart(i) == nl(i) /\ nl(i + 1) /\ Before(i) % 2 = 0
        starts    == SelectSeq(Indices(Len(s)), IsStart)
        n         == Len(starts)
    IN  [k \in 1..(n + 1) |->
            SubSeq(s, IF k = 1 THEN 1 ELSE starts[k - 1] + 2,
                      IF k = n + 1 THEN Len(s) ELSE starts[k] - 1)]

\* _extract_subsections(content)
Full_extract_subsections(c) ==
    IF c = <<>> THEN <<>>
    ELSE LET NonEmpty(p) == Strip(p) # <<>>
             pieces      == SelectSeq(SplitParagraphs(c), NonEmpty)
             paragraphs  == [i \in 1..Len(pieces) |->
                                [id |-> i - 1, text |-> Strip(pieces[i])]]
             Substantial(p) == Len(p.text) > full_min_paragraph_length
             kept        == SelectSeq(paragraphs, Substantial)
         IN  [i \in 1..Len(kept) |->
                 [id           |-> kept[i].id,
                  text         |-> kept[i].text,
                  refined_text |-> Full_refine_text(kept[i].text),
                  length       |-> Len(kept[i].text),
                  keywords     |-> Full_extract_keywords(kept[i].text,
                                                         full_subsection_max_keywords)]]

\* _analyze_section(section, persona, job_to_be_done)
Full_analyze_section(section, p, j) ==
    LET c     == Get(section, "content", <<>>)
        title == Get(section, "title", <<>>)
        persona_relevance == Full_calculate_relevance(c \o <<" ">> \o title, p)
        job_relevance     == Full_calculate_relevance(c \o <<" ">> \o title, j)
    IN  Update(section,
               [keywords           |-> Full_extract_keywords(c, full_max_keywords),
                entities           |-> <<>>,
                persona_relevance  |-> persona_relevance,
                job_relevance      |-> job_relevance,
                combined_relevance |-> Combine(persona_relevance, job_relevance),
                subsections        |-> Full_extract_subsections(c)])

\* sum(1 for indicator in indicators if indicator in text)
CountIn(indicators, text) == Cardinality({w \in indicators : Contains(text, w)})

\* _classify_document_type(document)
Full_classify_document_type(document) ==
    LET full_text       == Lower(Get(document, "full_text", <<>>))
        research_score  == CountIn(research_indicators, full_text)
        business_score  == CountIn(business_indicators, full_text)
        education_score == CountIn(education_indicators, full_text)
        max_score       == Max(research_score, Max(business_score, education_score))
    IN  IF max_score = 0 THEN "general"
        ELSE IF max_score = research_score THEN "research"
        ELSE IF max_score = business_score THEN "business"
        ELSE "educational"

\* _extract_document_features(document); avg_section_length in units of 1/10^4
Full_extract_document_features(document) ==
    LET sections == Get(document, "sections", <<>>)
    IN  [total_sections     |-> Len(sections),
         total_pages        |-> Len(Get(document, "pages", <<>>)),
         avg_section_length |->
             IF sections = <<>> THEN 0
             ELSE RatioE4(Sum([i \in 1..Len(sections) |->
                                  Len(Get(sections[i], "content", <<>>))]),
                          Len(sections)),
         document_type      |-> Full_classify_document_type(document)]

\* _analyze_single_document(document, persona, job_to_be_done)
Full_analyze_single_document(document, p, j) ==
    LET sections == Get(document, "sections", <<>>)
    IN  Update(document,
               [analyzed_sections |->
                    [i \in 1..Len(sections) |-> Full_analyze_section(sections[i], p, j)],
                document_features |-> Full_extract_document_features(document)])

(***************************************************************************)
(* SectionRanker                      src/src/section_ranker.py            *)
(***************************************************************************)
\* _rank_and_format_sections keeps sorted_sections[:20]
full_max_sections == 20

\* _rank_and_format_subsections keeps sorted_subsections[:30]
full_max_subsections == 30

\* max_length of _create_content_preview
full_preview_max_length == 200

\* alignments of _calculate_document_type_bonus
research_terms ==
    { <<"r","e","s","e","a","r","c","h","e","r">>, <<"s","c","i","e","n","t","i","s","t">>,
      <<"a","c","a","d","e","m","i","c">>, <<"p","h","d">>, <<"a","n","a","l","y","s","t">> }

business_terms ==
    { <<"a","n","a","l","y","s","t">>, <<"m","a","n","a","g","e","r">>,
      <<"e","x","e","c","u","t","i","v","e">>, <<"i","n","v","e","s","t","o","r">>,
      <<"c","o","n","s","u","l","t","a","n","t">> }

educational_terms ==
    { <<"s","t","u","d","e","n","t">>, <<"t","e","a","c","h","e","r">>,
      <<"l","e","a","r","n","e","r">>, <<"u","n","d","e","r","g","r","a","d","u","a","t","e">> }

\* _calculate_title_relevance(title, persona, job_to_be_done), in units of 1/10^6:
\* (persona_overlap * 0.4 + job_overlap * 0.6) * 0.5
Full_calculate_title_relevance(title, p, j) ==
    IF title = <<>> THEN 0
    ELSE LET persona_words == Range(Split(Lower(p)))
             job_words     == Range(Split(Lower(j)))
             title_words   == Range(Split(Lower(title)))
             persona_overlap == RatioE4(Cardinality(persona_words \cap title_words),
                                        Max(Cardinality(persona_words), 1))
             job_overlap     == RatioE4(Cardinality(job_words \cap title_words),
                                        Max(Cardinality(job_words), 1))
         IN  (persona_overlap * 4 + job_overlap * 6) * 5

\* _calculate_length_factor(content), in units of 1/10^4
Full_calculate_length_factor(c) ==
    IF c = <<>> THEN 0
    ELSE IF 200 <= Len(c) /\ Len(c) <= 2000 THEN 10000
    ELSE IF Len(c) < 200 THEN RatioE4(Len(c), 200)
    ELSE Max(5000, RatioE4(2000, Len(c)))

\* _calculate_position_factor(page_num), in units of 1/10
Full_calculate_position_factor(page_num) ==
    IF page_num <= 3 THEN 10 ELSE IF page_num <= 10 THEN 9 ELSE 8

\* _calculate_entity_relevance(entities, persona, job_to_be_done), in units of 1/10^4
Full_calculate_entity_relevance(entities, p, j) ==
    IF entities = <<>> THEN 0
    ELSE LET Relevant(i) ==
                 LET entity_text == Lower(Get(entities[i], "text", <<>>))
                 IN  Contains(Lower(p), entity_text) \/ Contains(Lower(j), entity_text)
             relevant_count == Cardinality({i \in 1..Len(entities) : Relevant(i)})
         IN  Min(10000, RatioE4(relevant_count, 3))

\* _calculate_document_type_bonus(doc_type, persona), in units of 1/10
Full_calculate_document_type_bonus(doc_type, p) ==
    LET relevant_terms == CASE doc_type = "research" -> research_terms
                            [] doc_type = "business" -> business_terms
                            [] doc_type = "educational" -> educational_terms
                            [] OTHER -> {}
    IN  IF AnyIn(relevant_terms, Lower(p)) THEN 2 ELSE 0

\* final_score of _enhance_section_scoring, in units of 1/10^7:
\*   base_score * 0.4 + title_bonus * 0.2 + length_factor * 0.1
\*   + position_factor * 0.1 + entity_bonus * 0.1 + doc_type_bonus * 0.1
Full_final_score(base_score, title_bonus, length_factor, position_factor, entity_bonus, doc_type_bonus) ==
    base_score * 40 + title_bonus * 2 + length_factor * 100
    + position_factor * 100000 + entity_bonus * 100 + doc_type_bonus * 100000

\* _enhance_section_scoring(section, filename, doc_type, persona, job_to_be_done)
Full_enhance_section_scoring(section, filename, doc_type, p, j) ==
    LET base_score      == Get(section, "combined_relevance", 0)
        title_bonus     == Full_calculate_title_relevance(Get(section, "title", <<>>), p, j)
        length_factor   == Full_calculate_length_factor(Get(section, "content", <<>>))
        position_factor == Full_calculate_position_factor(Get(section, "page", 1))
        entity_bonus    == Full_calculate_entity_relevance(Get(section, "entities", <<>>), p, j)
        doc_type_bonus  == Full_calculate_document_type_bonus(doc_type, p)
    IN  Update(section,
               [document    |-> filename,
                final_score |-> Full_final_score(base_score, title_bonus, length_factor,
                                                 position_factor, entity_bonus, doc_type_bonus),
                scoring_details |->
                    [base_score      |-> base_score,
                     title_bonus     |-> title_bonus,
                     length_factor   |-> length_factor,
                     position_factor |-> position_factor,
                     entity_bonus    |-> entity_bonus,
                     doc_type_bonus  |-> doc_type_bonus]])

\* subsection_score of _enhance_subsection_scoring, in units of 1/10^7:
\* (persona_relevance * 0.4 + job_relevance * 0.6) * 0.7
Full_subsection_score(persona_relevance, job_relevance) ==
    Combine(persona_relevance, job_relevance) * 70

\* _enhance_subsection_scoring(subsection, parent_section, filename, doc_type,
\*                             persona, job_to_be_done); parent_score is
\* combined_relevance * 0.3, final_score in units of 1/10^7
Full_enhance_subsection_scoring(subsection, parent_section, filename, doc_type, p, j) ==
    LET parent_score     == Get(parent_section, "combined_relevance", 0) * 30
        text             == Get(subsection, "text", <<>>)
        subsection_score == Full_subsection_score(Full_calculate_relevance(text, p),
                                                  Full_calculate_relevance(text, j))
    IN  Update(subsection,
               [document        |-> filename,
                section_title   |-> Get(parent_section, "title", <<>>),
                page_number     |-> Get(parent_section, "page", 1),
                final_score     |-> parent_score + subsection_score,
                relevance_score |-> subsection_score])

\* _create_content_preview(content, max_length=200)
Full_create_content_preview(c) ==
    IF c = <<>> THEN <<>>
    ELSE IF Len(c) <= full_preview_max_length THEN c
    ELSE LET truncated   == Prefix(c, full_preview_max_length)
             last_period == RFind(truncated, ".")
             last_space  == RFind(truncated, " ")
         IN  IF last_period * 10 > full_preview_max_length * 7
             THEN Prefix(c, last_period + 1) \o Ellipsis
             ELSE IF last_space * 10 > full_preview_max_length * 8
             THEN Prefix(c, last_space) \o Ellipsis
             ELSE truncated \o Ellipsis

\* _rank_and_format_sections(sections)
Full_rank_and_format_sections(sections) ==
    LET sorted_sections == Prefix(SortedDesc(sections, "final_score"), full_max_sections)
    IN  [i \in 1..Len(sorted_sections) |->
            [document        |-> Get(sorted_sections[i], "document", <<>>),
             page_number     |-> Get(sorted_sections[i], "page", 1),
             section_title   |-> Get(sorted_sections[i], "title", <<>>),
             importance_rank |-> i,
             relevance_score |-> Round3FromE7(Get(sorted_sections[i], "final_score", 0)),
             content_preview |->
                 Full_create_content_preview(Get(sorted_sections[i], "content", <<>>))]]

\* _rank_and_format_subsections(subsections)
Full_rank_and_format_subsections(subsections) ==
    LET sorted_subsections ==
            Prefix(SortedDesc(subsections, "final_score"), full_max_subsections)
    IN  [i \in 1..Len(sorted_subsections) |->
            [document        |-> Get(sorted_subsections[i], "document", <<>>),
             section_title   |-> Get(sorted_subsections[i], "section_title", <<>>),
             refined_text    |-> Get(sorted_subsections[i], "refined_text", <<>>),
             page_number     |-> Get(sorted_subsections[i], "page_number", 1),
             importance_rank |-> i,
             relevance_score |-> Round3FromE7(Get(sorted_subsections[i], "final_score", 0))]]

\* the enhanced sections rank_sections collects from one document, in order
Full_collect_sections(doc, p, j) ==
    LET filename == Get(doc, "filename", Unknown)
        doc_type == Get(Get(doc, "document_features", <<>>), "document_type", "general")
        sections == Get(doc, "analyzed_sections", <<>>)
    IN  [i \in 1..Len(sections) |->
            Full_enhance_section_scoring(sections[i], filename, doc_type, p, j)]

\* the enhanced subsections rank_sections collects from one document, in order
Full_collect_doc_subsections(doc, p, j) ==
    LET filename == Get(doc, "filename", Unknown)
        doc_type == Get(Get(doc, "document_features", <<>>), "document_type", "general")
        sections == Get(doc, "analyzed_sections", <<>>)
        Subsections(section) ==
            LET subsections == Get(section, "subsections", <<>>)
            IN  [k \in 1..Len(subsections) |->
                    Full_enhance_subsection_scoring(subsections[k], section,
                                                    filename, doc_type, p, j)]
    IN  Concat([i \in 1..Len(sections) |-> Subsections(sections[i])])

\* _calculate_position_factor raises on a section of the batch: page_num <= 3
\* has no meaning for a page that is None
Full_rank_raises(analyzed_documents) ==
    \E d \in 1..Len(analyzed_documents) :
        \E k \in 1..Len(analyzed_documents[d].analyzed_sections) :
            IsNone(Get(analyzed_documents[d].analyzed_sections[k], "page", 1))

\* rank_sections(analyzed_documents, persona, job_to_be_done): the whole body
\* is one try block, and its except clause returns two empty lists
Full_rank_sections(analyzed_documents, p, j) ==
    LET all_sections ==
            Concat([d \in 1..Len(analyzed_documents) |->
                       Full_collect_sections(analyzed_documents[d], p, j)])
        all_subsections ==
            Concat([d \in 1..Len(analyzed_documents) |->
                       Full_collect_doc_subsections(analyzed_documents[d], p, j)])
    IN  IF Full_rank_raises(analyzed_documents)
        THEN [sections |-> <<>>, subsections |-> <<>>]
        ELSE [sections    |-> Full_rank_and_format_sections(all_sections),
              subsections |-> Full_rank_and_format_subsections(all_subsections)]

(***************************************************************************)
(* PDFProcessor                       src/src/pdf_processor.py             *)
(***************************************************************************)
\* len(line) < 100: a line this long is no heading by its shape
heading_max_length == 100

\* len(next_line) > 50: the line after a heading by its shape is longer than this
long_line_length == 50

\* len(current_section['content']) > 50: "Only save substantial sections"
min_content_length == 50

\* text.split('\n'): the pieces of text between its newlines, empty ones included
SplitLines(text) ==
    LET IsNewline(i) == text[i] = "\n"
        nl == SelectSeq(Indices(Len(text)), IsNewline)
    IN  [k \in 1..(Len(nl) + 1) |->
            SubSeq(text,
                   IF k = 1 THEN 1 ELSE nl[k - 1] + 1,
                   IF k = Len(nl) + 1 THEN Len(text) ELSE nl[k] - 1)]

\* the words of the last heading pattern, matched with re.IGNORECASE
heading_words ==
    { <<"a","b","s","t","r","a","c","t">>,
      <<"i","n","t","r","o","d","u","c","t","i","o","n">>,
      <<"c","o","n","c","l","u","s","i","o","n">>,
      <<"r","e","f","e","r","e","n","c","e","s">>,
      <<"m","e","t","h","o","d","s">>,
      <<"r","e","s","u","l","t","s">>,
      <<"d","i","s","c","u","s","s","i","o","n">> }

\* any(re.match(pattern, line, re.IGNORECASE) for pattern in heading_patterns), for a
\* stripped line: a, d, r and w are the indices of the first character after the
\* leading run of letters, digits, roman numerals and \w characters
MatchesHeadingPattern(line) ==
    LET n == Len(line)
        a == SkipWhile(line, 1, LowerLetters \cup UpperLetters)
        d == SkipWhile(line, 1, Digits)
        r == SkipWhile(line, 1, {"i", "v", "x", "I", "V", "X"})
        w == SkipWhile(line, 1, LowerLetters \cup UpperLetters \cup Digits \cup {"_"})
    IN  \/ /\ n >= 11
           /\ IsAlpha(line[1])
           /\ \A k \in 2..n : IsAlpha(line[k]) \/ line[k] \in Whitespace
        \/ /\ d > 1 /\ d < n /\ line[d] = "." /\ line[d + 1] \in Whitespace
           /\ LET e == SkipWhile(line, d + 1, Whitespace) IN e <= n /\ IsAlpha(line[e])
        \/ a >= 3 /\ a <= n /\ line[a] = ":"
        \/ r > 1 /\ r < n /\ line[r] = "." /\ line[r + 1] \in Whitespace
        \/ /\ w > 1 /\ w <= n /\ line[w] \in Whitespace
           /\ LET e == SkipWhile(line, w, Whitespace) IN e <= n /\ line[e] \in Digits
        \/ Lower(line) \in heading_words

\* is_heading of the line of 0-based index i of all_lines, the line not blank: a
\* heading pattern matches, or the line is short and the next one long
IsHeading(all_lines, i) ==
    LET line == Strip(all_lines[i + 1])
    IN  \/ MatchesHeadingPattern(line)
        \/ /\ Len(line) < heading_max_length
           /\ i < Len(all_lines) - 1
           /\ Len(Strip(all_lines[i + 2])) > long_line_length

\* the section a heading line opens
HeadingSection(line, page_num, i) ==
    [title |-> line, page |-> page_num, content |-> <<>>, start_line |-> i]

\* the section a body line opens when none is open
DefaultSection(page_num) ==
    [title |-> <<"D","o","c","u","m","e","n","t"," ","C","o","n","t","e","n","t">>,
     page |-> page_num, content |-> <<>>, start_line |-> 0]

\* "Save previous section" and "Save the last section": the sections list after the
\* flush of the open section
Flush(sections, section, body_lines) ==
    IF section # None /\ body_lines # <<>>
    THEN LET c == Strip(Join(<<"\n">>, body_lines))
         IN  IF Len(c) > min_content_length
             THEN Append(sections, [section EXCEPT !.content = c])
             ELSE sections
    ELSE sections

(***************************************************************************)
(* The inputs of the pipeline: documents as PDFProcessor builds them       *)
(* (src/src/pdf_processor.py), each page holding one heading line and one  *)
(* body line, which _identify_sections emits as one section.               *)
(***************************************************************************)
T_abstract ==
    << "T","h","i","s"," ","p","a","p","e","r"," ","s","t","u","d","i","e","s"," ","g","r","a",
       "p","h"," ","n","e","u","r","a","l"," ","n","e","t","w","o","r","k","s"," ","f","o","r",
       " ","d","r","u","g"," ","d","i","s","c","o","v","e","r","y","." >>

T_keywords ==
    << "W","e"," ","p","l","a","n",","," ","o","r","g","a","n","i","z","e",","," ","c","r","e",
       "a","t","e"," ","a","n","d"," ","b","u","i","l","d"," ","t","h","e"," ","b","e","s","t",
       " ","t","o","p"," ","q","u","a","l","i","t","y"," ","p","r","e","m","i","u","m"," ","g",
       "u","i","d","e"," ","w","i","t","h"," ","t","i","p","s",","," ","s","t","e","p","s"," ",
       "a","n","d"," ","h","o","w","-","t","o"," ","a","d","v","i","c","e",":"," ","k","e","y",
       ","," ","m","a","i","n",","," ","u","s","e","f","u","l"," ","a","n","d"," ","i","m","p",
       "o","r","t","a","n","t","." >>

T_sentence ==
    << "D","r","u","g"," ","d","i","s","c","o","v","e","r","y"," ","i","s"," ","e","x","p","e",
       "n","s","i","v","e"," ","a","n","d"," ","s","l","o","w",","," ","s","o"," ","r","e","s",
       "e","a","r","c","h","e","r","s"," ","l","o","o","k"," ","f","o","r"," ","n","e","w"," ",
       "m","e","t","h","o","d","s"," ","t","h","a","t"," ","f","i","n","d"," ","g","o","o","d",
       " ","c","a","n","d","i","d","a","t","e","s"," ","m","u","c","h"," ","f","a","s","t","e",
       "r"," ","t","h","a","n"," ","b","e","f","o","r","e","."," ","I","t"," ","p","a","y","s",
       "." >>

T_two ==
    << "G","r","a","p","h"," ","m","e","t","h","o","d","s"," ","a","r","e"," ","a","n"," ","e",
       "f","f","e","c","t","i","v","e"," ","a","p","p","r","o","a","c","h"," ","t","o"," ","f",
       "i","n","d"," ","t","h","e"," ","d","r","u","g"," ","c","a","n","d","i","d","a","t","e",
       "s"," ","t","h","a","t"," ","r","e","s","e","a","r","c","h","e","r","s"," ","c","o","u",
       "l","d"," ","n","o","t"," ","f","i","n","d"," ","b","y"," ","h","a","n","d"," ","i","n",
       " ","t","h","e"," ","p","a","s","t","."," ","T","h","e"," ","s","e","c","o","n","d"," ",
       "s","e","n","t","e","n","c","e"," ","o","f"," ","t","h","i","s"," ","s","e","c","t","i",
       "o","n"," ","i","s"," ","a","l","s","o"," ","l","o","n","g"," ","e","n","o","u","g","h",
       " ","t","o"," ","c","o","u","n","t"," ","a","s"," ","o","n","e"," ","m","o","r","e"," ",
       "s","u","b","s","e","c","t","i","o","n"," ","o","f"," ","t","h","e"," ","v","e","r","y",
       " ","s","a","m","e"," ","s","e","c","t","i","o","n","!"," ","D","o","n","e","." >>

T_plain ==
    << "N","o","t","h","i","n","g"," ","i","n"," ","t","h","e","s","e"," ","l","i","n","e","s",
       " ","r","e","l","a","t","e","s"," ","t","o"," ","a","n","y","t","h","i","n","g"," ","a",
       "t"," ","a","l","l",","," ","s","o","r","r","y","." >>

DigitChar == <<"0", "1", "2", "3", "4", "5", "6", "7", "8", "9">>

\* str(n) for 0 <= n <= 99
IntToStr(n) ==
    IF n < 10 THEN <<DigitChar[n + 1]>>
    ELSE <<DigitChar[(n \div 10) + 1], DigitChar[(n % 10) + 1]>>

\* the section _identify_sections emits for a page of a heading line and one
\* body line: the heading is line 0 of the page
Section(title, page_num, c) ==
    [title |-> title, page |-> page_num, content |-> c, start_line |-> 0]

\* the raw text of the page a section was read from
PageText(section) == section.title \o <<"\n">> \o section.content

\* f"\n[Page {page_num}]\n{text}"
PageMark(page_num, text) ==
    <<"\n", "[", "P", "a", "g", "e", " ">> \o IntToStr(page_num) \o <<"]", "\n">> \o text

\* document_data of _extract_with_pdfplumber for pages of one section each
Document(filename, sections) ==
    [filename  |-> filename,
     pages     |-> [k \in 1..Len(sections) |->
                       [page_number |-> k, text |-> Strip(PageText(sections[k]))]],
     full_text |-> Concat([k \in 1..Len(sections) |-> PageMark(k, PageText(sections[k]))]),
     sections  |-> sections]

Doc_a ==
    Document(<<"a",".","p","d","f">>,
        << Section(<<"A","B","S","T","R","A","C","T">>, 1, T_abstract) >>)

Doc_b ==
    Document(<<"b",".","p","d","f">>,
        << Section(<<"A","B","S","T","R","A","C","T">>, 1, T_abstract),
           Section(<<"N","o","t","e","s"," ","1">>, 2, T_plain),
           Section(<<"N","o","t","e","s"," ","2">>, 3, T_plain) >>)

Doc_c ==
    Document(<<"s","t","u","d","y"," ","g","u","i","d","e",".","p","d","f">>,
        << Section(<<"M","e","t","h","o","d","s">>, 1, T_sentence),
           Section(<<"R","e","s","u","l","t","s">>, 2, T_two),
           Section(<<"C","h","a","p","t","e","r"," ","3",":"," ","P","l","a","n","s">>, 3, T_keywords),
           Section(<<"M","e","t","h","o","d","s">>, 4, T_sentence),
           Section(<<"R","e","s","u","l","t","s">>, 5, T_two),
           Section(<<"D","I","S","C","U","S","S","I","O","N">>, 6, T_keywords),
           Section(<<"S","e","c","t","i","o","n"," ","7">>, 7, T_two),
           Section(<<"P","a","r","t"," ","8">>, 8, T_sentence),
           Section(<<"N","o","t","e","s"," ","9">>, 9, T_two),
           Section(<<"N","o","t","e","s"," ","1","0">>, 10, T_keywords),
           Section(<<"N","o","t","e","s"," ","1","1">>, 11, T_two),
           Section(<<"N","o","t","e","s"," ","1","2">>, 12, T_sentence),
           Section(<<"N","o","t","e","s"," ","1","3">>, 13, T_two),
           Section(<<"N","o","t","e","s"," ","1","4">>, 14, T_keywords),
           Section(<<"N","o","t","e","s"," ","1","5">>, 15, T_two),
           Section(<<"N","o","t","e","s"," ","1","6">>, 16, T_sentence),
           Section(<<"N","o","t","e","s"," ","1","7">>, 17, T_plain) >>)

DocPool == <<Doc_a, Doc_b, Doc_c>>

\* the largest number of documents of a batch
MaxDocs == 3

\* the batches: up to MaxDocs different documents of the pool, in any order
Batches ==
    LET idx == UNION {[1..n -> 1..Len(DocPool)] : n \in 0..MaxDocs}
    IN  {[k \in DOMAIN f |-> DocPool[f[k]]] :
            f \in {g \in idx : \A a, b \in DOMAIN g : a # b => g[a] # g[b]}}

P_researcher ==
    << "d","r","u","g"," ","d","i","s","c","o","v","e","r","y"," ","r","e","s","e","a","r","c",
       "h","e","r" >>

J_find ==
    << "f","i","n","d"," ","m","e","t","h","o","d","s"," ","f","o","r"," ","d","r","u","g"," ",
       "d","i","s","c","o","v","e","r","y" >>

J_plan ==
    << "P","l","a","n"," ","a"," ","d","e","t","a","i","l","e","d"," ","s","t","u","d","y"," ",
       "g","u","i","d","e" >>

Personas == {<<>>, P_researcher}

Jobs == {<<>>, J_find, J_plan}

NoResult == [sections |-> <<>>, subsections |-> <<>>]

NoPreview == [full |-> <<>>, lite |-> <<>>, done |-> {}]

\* no PDF file is being read
NoExtraction ==
    /\ program = "none"
    /\ decoder = "none"
    /\ pdf_files = <<>>
    /\ json_files = 0
    /\ next_pdf = 1
    /\ page_number = 0
    /\ lines = <<>>
    /\ line_no = 0
    /\ current_section = None
    /\ section_text = <<>>
    /\ pdf_sections = <<>>
    /\ document_data = None
    /\ pdf_all_sections = <<>>
    /\ output = None

\* _analyze_section_fast and _analyze_section raise on a section of the
\* document: title.lower() and content + " " + title have no meaning for a
\* title or a content that is None
Analyze_raises(document) ==
    \E k \in 1..Len(document.sections) :
        \/ IsNone(Get(document.sections[k], "content", <<>>))
        \/ IsNone(Get(document.sections[k], "title", <<>>))

(***************************************************************************)
(* The pipeline: analyze_documents, one document per step of its loop, and *)
(* then rank_sections                                                      *)
(***************************************************************************)
Init ==
    /\ variant \in {"lite", "full"}
    /\ persona \in Personas
    /\ job \in Jobs
    /\ documents \in Batches
    /\ analyzed_docs = <<>>
    /\ next_doc = 1
    /\ result = NoResult
    /\ pc = "analyze"
    /\ content = <<>>
    /\ preview = NoPreview
    /\ NoExtraction

\* one iteration of the loop with _analyze_single_document writing its results
\* into the document it is given instead of document.copy()
LiteAnalyzeDocument_in_place ==
    /\ pc = "analyze" /\ variant = "lite" /\ next_doc <= Len(documents)
    /\ analyzed_docs' =
           IF Analyze_raises(documents[next_doc])
           THEN analyzed_docs
           ELSE Append(analyzed_docs,
                       Lite_analyze_single_document(documents[next_doc], persona, job))
    /\ documents' =
           IF Analyze_raises(documents[next_doc])
           THEN documents
           ELSE [documents EXCEPT
                    ![next_doc] = Lite_analyze_single_document(documents[next_doc],
                                                               persona, job)]
    /\ next_doc' = next_doc + 1
    /\ UNCHANGED <<variant, persona, job, result, pc, content, preview, pdf_vars>>

\* LightweightTextAnalyzer.analyze_documents: one iteration of the loop
LiteAnalyzeDocument ==
    /\ pc = "analyze" /\ variant = "lite" /\ next_doc <= Len(documents)
    /\ analyzed_docs' =
           IF Analyze_raises(documents[next_doc])
           THEN analyzed_docs
           ELSE Append(analyzed_docs,
                       Lite_analyze_single_document(documents[next_doc], persona, job))
    /\ next_doc' = next_doc + 1
    /\ UNCHANGED <<variant, persona, job, documents, result, pc, content, preview, pdf_vars>>

\* TextAnalyzer.analyze_documents: one iteration of the loop
FullAnalyzeDocument ==
    /\ pc = "analyze" /\ variant = "full" /\ next_doc <= Len(documents)
    /\ analyzed_docs' =
           IF Analyze_raises(documents[next_doc])
           THEN analyzed_docs
           ELSE Append(analyzed_docs,
                       Full_analyze_single_document(documents[next_doc], persona, job))
    /\ next_doc' = next_doc + 1
    /\ UNCHANGED <<variant, persona, job, documents, result, pc, content, preview, pdf_vars>>

\* analyze_documents: the loop is over, return analyzed_docs
ReturnAnalyzed ==
    /\ pc = "analyze" /\ next_doc > Len(documents)
    /\ pc' = "rank"
    /\ UNCHANGED <<variant, persona, job, documents, analyzed_docs, next_doc, result,
                   content, preview, pdf_vars>>

\* LightweightSectionRanker.rank_sections
LiteRankSections ==
    /\ pc = "rank" /\ variant = "lite"
    /\ result' = Lite_rank_sections(analyzed_docs, persona, job)
    /\ pc' = "done"
    /\ UNCHANGED <<variant, persona, job, documents, analyzed_docs, next_doc,
                   content, preview, pdf_vars>>

\* SectionRanker.rank_sections
FullRankSections ==
    /\ pc = "rank" /\ variant = "full"
    /\ result' = Full_rank_sections(analyzed_docs, persona, job)
    /\ pc' = "done"
    /\ UNCHANGED <<variant, persona, job, documents, analyzed_docs, next_doc,
                   content, preview, pdf_vars>>

Next ==
    \/ LiteAnalyzeDocument
    \/ FullAnalyzeDocument
    \/ ReturnAnalyzed
    \/ LiteRankSections
    \/ FullRankSections

Spec == Init /\ [][Next]_vars

(***************************************************************************)
(* The pipeline on batches with a malformed section or a long section      *)
(***************************************************************************)
\* d.pdf: the title of its second section is None
Doc_d ==
    [Document(<<"d",".","p","d","f">>,
         << Section(<<"A","B","S","T","R","A","C","T">>, 1, T_abstract),
            Section(<<"N","o","t","e","s"," ","1">>, 2, T_plain) >>)
     EXCEPT !.sections[2].title = None]

\* e.pdf: the second section has no page, and its position is None
Doc_e ==
    [Document(<<"e",".","p","d","f">>,
         << Section(<<"A","B","S","T","R","A","C","T">>, 1, T_abstract),
            Section(<<"N","o","t","e","s"," ","1">>, 2, T_plain) >>)
     EXCEPT !.sections[2] = [title      |-> <<"N","o","t","e","s"," ","1">>,
                             page       |-> None,
                             content    |-> T_plain,
                             start_line |-> 0,
                             position   |-> None]]

\* a section of eight sentences of 12, 16, 22, 3, 11, 10, 10 and 10 words:
\* 'Graph neural networks help researchers find new drug candidates in large libraries. The first method ranks every molecule by a learned score and keeps only the best ones! A second method builds a graph of known drugs and targets and then predicts the missing links between any two of them? It works well. Both methods need clean data and a careful choice of features. Drug discovery is expensive and slow without tools like these. Every result has to be checked again in the laboratory. This last long sentence is cut off by the cap.'
T_survey ==
    << "G","r","a","p","h"," ","n","e","u","r","a","l"," ","n","e","t","w","o","r","k",
       "s"," ","h","e","l","p"," ","r","e","s","e","a","r","c","h","e","r","s"," ","f",
       "i","n","d"," ","n","e","w"," ","d","r","u","g"," ","c","a","n","d","i","d","a",
       "t","e","s"," ","i","n"," ","l","a","r","g","e"," ","l","i","b","r","a","r","i",
       "e","s","."," ","T","h","e"," ","f","i","r","s","t"," ","m","e","t","h","o","d",
       " ","r","a","n","k","s"," ","e","v","e","r","y"," ","m","o","l","e","c","u","l",
       "e"," ","b","y"," ","a"," ","l","e","a","r","n","e","d"," ","s","c","o","r","e",
       " ","a","n","d"," ","k","e","e","p","s"," ","o","n","l","y"," ","t","h","e"," ",
       "b","e","s","t"," ","o","n","e","s","!"," ","A"," ","s","e","c","o","n","d"," ",
       "m","e","t","h","o","d"," ","b","u","i","l","d","s"," ","a"," ","g","r","a","p",
       "h"," ","o","f"," ","k","n","o","w","n"," ","d","r","u","g","s"," ","a","n","d",
       " ","t","a","r","g","e","t","s"," ","a","n","d"," ","t","h","e","n"," ","p","r",
       "e","d","i","c","t","s"," ","t","h","e"," ","m","i","s","s","i","n","g"," ","l",
       "i","n","k","s"," ","b","e","t","w","e","e","n"," ","a","n","y"," ","t","w","o",
       " ","o","f"," ","t","h","e","m","?"," ","I","t"," ","w","o","r","k","s"," ","w",
       "e","l","l","."," ","B","o","t","h"," ","m","e","t","h","o","d","s"," ","n","e",
       "e","d"," ","c","l","e","a","n"," ","d","a","t","a"," ","a","n","d"," ","a"," ",
       "c","a","r","e","f","u","l"," ","c","h","o","i","c","e"," ","o","f"," ","f","e",
       "a","t","u","r","e","s","."," ","D","r","u","g"," ","d","i","s","c","o","v","e",
       "r","y"," ","i","s"," ","e","x","p","e","n","s","i","v","e"," ","a","n","d"," ",
       "s","l","o","w"," ","w","i","t","h","o","u","t"," ","t","o","o","l","s"," ","l",
       "i","k","e"," ","t","h","e","s","e","."," ","E","v","e","r","y"," ","r","e","s",
       "u","l","t"," ","h","a","s"," ","t","o"," ","b","e"," ","c","h","e","c","k","e",
       "d"," ","a","g","a","i","n"," ","i","n"," ","t","h","e"," ","l","a","b","o","r",
       "a","t","o","r","y","."," ","T","h","i","s"," ","l","a","s","t"," ","l","o","n",
       "g"," ","s","e","n","t","e","n","c","e"," ","i","s"," ","c","u","t"," ","o","f",
       "f"," ","b","y"," ","t","h","e"," ","c","a","p","." >>

\* f.pdf: well formed, with the long section
Doc_f ==
    Document(<<"f",".","p","d","f">>,
        << Section(<<"S","u","r","v","e","y">>, 1, T_survey) >>)

FaultyPool == <<Doc_a, Doc_b, Doc_d, Doc_e, Doc_f>>

\* the largest number of documents of a batch with malformed sections
MaxFaulty == 2

FaultyBatches == UNION {[1..n -> Range(FaultyPool)] : n \in 0..MaxFaulty}

InitFaulty ==
    /\ variant \in {"lite", "full"}
    /\ persona = P_researcher
    /\ job = J_find
    /\ documents \in FaultyBatches
    /\ analyzed_docs = <<>>
    /\ next_doc = 1
    /\ result = NoResult
    /\ pc = "analyze"
    /\ content = <<>>
    /\ preview = NoPreview
    /\ NoExtraction

SpecFaulty == InitFaulty /\ [][Next]_vars

(***************************************************************************)
(* The preview functions on their own: _create_content_preview of          *)
(* SectionRanker and _create_preview of LightweightSectionRanker, applied  *)
(* to contents about as long as their max_length                           *)
(***************************************************************************)
\* the contents are up to this many characters longer than a max_length
PreviewSlack == 4

PreviewMaxLengths == {lite_preview_max_length, full_preview_max_length}

PreviewLengths ==
    {1, lite_preview_max_length \div 2}
        \cup {m + d : m \in PreviewMaxLengths, d \in (0 - 1)..PreviewSlack}

NoIndex == 0 - 1

\* where a content has its "." (0-based): nowhere, or at the last index that
\* is not past 70% of a max_length, or at the first index that is
PeriodIndexes == {NoIndex} \cup {(m * 7) \div 10 + d : m \in PreviewMaxLengths, d \in 0..1}

\* where a content has its " " (0-based): nowhere, or at the last index that
\* is not past 80% of a max_length, or at the first index that is
SpaceIndexes == {NoIndex} \cup {(m * 8) \div 10 + d : m \in PreviewMaxLengths, d \in 0..1}

\* what else a content has: nothing, or a "!" between the 70% and the 80% index
\* of both max_lengths, or a run of two spaces and a tab near its start
OtherMarks ==
    { <<>>,
      [i \in {90, 150} |-> "!"],
      [i \in {10, 11, 12} |-> IF i = 12 THEN "\t" ELSE " "] }

\* the content of n characters with the given marks, letters elsewhere
PreviewText(n, period, space, other) ==
    [i \in 1..n |->
        IF i - 1 = period THEN "."
        ELSE IF i - 1 = space THEN " "
        ELSE IF i - 1 \in DOMAIN other THEN other[i - 1]
        ELSE "a"]

PreviewContents ==
    {<<>>} \cup {PreviewText(n, period, space, other) :
                    n \in PreviewLengths, period \in PeriodIndexes,
                    space \in SpaceIndexes, other \in OtherMarks}

InitPreview ==
    /\ variant = "full"
    /\ persona = <<>>
    /\ job = <<>>
    /\ documents = <<>>
    /\ analyzed_docs = <<>>
    /\ next_doc = 1
    /\ result = NoResult
    /\ pc = "preview"
    /\ content \in PreviewContents
    /\ preview = NoPreview
    /\ NoExtraction

\* SectionRanker._create_content_preview(content)
FullCreateContentPreview ==
    /\ pc = "preview" /\ "full" \notin preview.done
    /\ preview' = [preview EXCEPT !.full = Full_create_content_preview(content),
                                  !.done = @ \cup {"full"}]
    /\ UNCHANGED <<variant, persona, job, documents, analyzed_docs, next_doc, result,
                   pc, content, pdf_vars>>

\* LightweightSectionRanker._create_preview(content)
LiteCreatePreview ==
    /\ pc = "preview" /\ "lite" \notin preview.done
    /\ preview' = [preview EXCEPT !.lite = Lite_create_preview(content),
                                  !.done = @ \cup {"lite"}]
    /\ UNCHANGED <<variant, persona, job, documents, analyzed_docs, next_doc, result,
                   pc, content, pdf_vars>>

NextPreview ==
    \/ FullCreateContentPreview
    \/ LiteCreatePreview

SpecPreview == InitPreview /\ [][NextPreview]_vars

(***************************************************************************)
(* PDFProcessor: process_pdf, one page and one line per step               *)
(***************************************************************************)
\* the file the loop over pdf_files is at
CurrentPdf == pdf_files[next_pdf]

\* process_pdf(pdf_path) up to the loop over the pages: a file the decoder cannot
\* open raises, process_pdf returns None and the file is skipped
ProcessPdf ==
    /\ pc = "pdf" /\ program = "PDFProcessor" /\ next_pdf <= Len(pdf_files)
    /\ IF decoder \in CurrentPdf.corrupt
       THEN /\ document_data' = None
            /\ next_pdf' = next_pdf + 1
            /\ UNCHANGED <<pc, page_number>>
       ELSE /\ document_data' = [filename  |-> CurrentPdf.name,
                                 pages     |-> <<>>,
                                 full_text |-> <<>>,
                                 sections  |-> <<>>]
            /\ page_number' = 0
            /\ pc' = "page"
            /\ UNCHANGED next_pdf
    /\ UNCHANGED <<variant, persona, job, documents, analyzed_docs, next_doc, result,
                   content, preview, program, decoder, pdf_files, json_files, lines,
                   line_no, current_section, section_text, pdf_sections,
                   pdf_all_sections, output>>

\* the loop over the pages with a list of sections that _identify_sections keeps
\* from one call to the next instead of starting from sections = []
ExtractPage_keeps_sections ==
    /\ pc = "page" /\ program = "PDFProcessor" /\ page_number < Len(CurrentPdf.pages)
    /\ page_number' = page_number + 1
    /\ LET page == CurrentPdf.pages[page_number + 1]
       IN  IF decoder \in page.unreadable \/ page.text = <<>>
           THEN UNCHANGED <<pc, lines, line_no, current_section, section_text, pdf_sections>>
           ELSE /\ lines' = SplitLines(page.text)
                /\ line_no' = 0
                /\ current_section' = None
                /\ section_text' = <<>>
                /\ UNCHANGED pdf_sections
                /\ pc' = "line"
    /\ UNCHANGED <<variant, persona, job, documents, analyzed_docs, next_doc, result,
                   content, preview, program, decoder, pdf_files, json_files, next_pdf,
                   document_data, pdf_all_sections, output>>

\* _extract_with_pdfplumber, _extract_with_pypdf2: one iteration of the loop over the
\* pages, up to the call of _identify_sections(text, page_num).  A page whose
\* extract_text() raises, or returns no text, is passed over.
ExtractPage ==
    /\ pc = "page" /\ program = "PDFProcessor" /\ page_number < Len(CurrentPdf.pages)
    /\ page_number' = page_number + 1
    /\ LET page == CurrentPdf.pages[page_number + 1]
       IN  IF decoder \in page.unreadable \/ page.text = <<>>
           THEN UNCHANGED <<pc, lines, line_no, current_section, section_text, pdf_sections>>
           ELSE /\ lines' = SplitLines(page.text)
                /\ line_no' = 0
                /\ current_section' = None
                /\ section_text' = <<>>
                /\ pdf_sections' = <<>>
                /\ pc' = "line"
    /\ UNCHANGED <<variant, persona, job, documents, analyzed_docs, next_doc, result,
                   content, preview, program, decoder, pdf_files, json_files, next_pdf,
                   document_data, pdf_all_sections, output>>

\* the loop over the lines without the default section: a body line read before
\* the first heading of the page is passed over
IdentifyLine_without_default ==
    /\ pc = "line" /\ program = "PDFProcessor" /\ line_no < Len(lines)
    /\ line_no' = line_no + 1
    /\ LET line == Strip(lines[line_no + 1])
       IN  IF line = <<>>
           THEN UNCHANGED <<current_section, section_text, pdf_sections>>
           ELSE IF IsHeading(lines, line_no)
           THEN /\ pdf_sections' = Flush(pdf_sections, current_section, section_text)
                /\ current_section' = HeadingSection(line, page_number, line_no)
                /\ section_text' = <<>>
           ELSE IF current_section # None
           THEN /\ section_text' = Append(section_text, line)
                /\ UNCHANGED <<current_section, pdf_sections>>
           ELSE UNCHANGED <<current_section, section_text, pdf_sections>>
    /\ UNCHANGED <<variant, persona, job, documents, analyzed_docs, next_doc, result, pc,
                   content, preview, program, decoder, pdf_files, json_files, next_pdf,
                   page_number, lines, document_data, pdf_all_sections, output>>

\* _identify_sections: one iteration of the loop over the lines, line_no being i
IdentifyLine ==
    /\ pc = "line" /\ program = "PDFProcessor" /\ line_no < Len(lines)
    /\ line_no' = line_no + 1
    /\ LET line == Strip(lines[line_no + 1])
       IN  IF line = <<>>
           THEN UNCHANGED <<current_section, section_text, pdf_sections>>
           ELSE IF IsHeading(lines, line_no)
           THEN /\ pdf_sections' = Flush(pdf_sections, current_section, section_text)
                /\ current_section' = HeadingSection(line, page_number, line_no)
                /\ section_text' = <<>>
           ELSE IF current_section # None
           THEN /\ section_text' = Append(section_text, line)
                /\ UNCHANGED <<current_section, pdf_sections>>
           ELSE IF pdf_sections = <<>>
           THEN /\ current_section' = DefaultSection(page_number)
                /\ section_text' = <<line>>
                /\ UNCHANGED pdf_sections
           ELSE UNCHANGED <<current_section, section_text, pdf_sections>>
    /\ UNCHANGED <<variant, persona, job, documents, analyzed_docs, next_doc, result, pc,
                   content, preview, program, decoder, pdf_files, json_files, next_pdf,
                   page_number, lines, document_data, pdf_all_sections, output>>

\* _identify_sections after the last line: the last section is saved and the
\* sections returned; the caller adds the page and its sections to document_data
IdentifySectionsReturn ==
    /\ pc = "line" /\ program = "PDFProcessor" /\ line_no = Len(lines)
    /\ LET text     == CurrentPdf.pages[page_number].text
           returned == Flush(pdf_sections, current_section, section_text)
       IN  /\ pdf_sections' = returned
           /\ document_data' =
                  [document_data EXCEPT
                      !.pages     = Append(@, [page_number |-> page_number,
                                               text        |-> Strip(text),
                                               sections    |-> returned]),
                      !.full_text = @ \o PageMark(page_number, text),
                      !.sections  = @ \o returned]
    /\ pc' = "page"
    /\ UNCHANGED <<variant, persona, job, documents, analyzed_docs, next_doc, result,
                   content, preview, program, decoder, pdf_files, json_files, next_pdf,
                   page_number, lines, line_no, current_section, section_text,
                   pdf_all_sections, output>>

\* after the last page: document_data is returned by process_pdf and joins the
\* documents to analyze
ProcessPdfReturn ==
    /\ pc = "page" /\ program = "PDFProcessor" /\ page_number = Len(CurrentPdf.pages)
    /\ documents' = Append(documents, document_data)
    /\ next_pdf' = next_pdf + 1
    /\ pc' = "pdf"
    /\ UNCHANGED <<variant, persona, job, analyzed_docs, next_doc, result,
                   content, preview, program, decoder, pdf_files, json_files,
                   page_number, lines, line_no, current_section, section_text,
                   pdf_sections, document_data, pdf_all_sections, output>>

\* every file is processed: the documents read go to analyze_documents and then to
\* rank_sections; with no document read the run fails
ProcessDone ==
    /\ pc = "pdf" /\ program = "PDFProcessor" /\ next_pdf > Len(pdf_files)
    /\ pc' = IF documents = <<>> THEN "failed" ELSE "analyze"
    /\ UNCHANGED <<variant, persona, job, documents, analyzed_docs, next_doc, result,
                   content, preview, pdf_vars>>

(***************************************************************************)
(* main.py: extract_sections_from_pdf, score_section_relevance,            *)
(* rank_sections and main                                                  *)
(***************************************************************************)
\* len(stripped) < 100
main_title_max_length == 100

\* split()[:5]: the words of a derived title
main_first_words == 5

\* top_n=5 of rank_sections, top_full[:5] of main
top_n == 5

\* item["text"].strip()[:500]
main_refined_length == 500

\* length_score = min(len(section_text) / 1000, 1.0)
main_full_length == 1000

MainUntitled == <<"U","n","t","i","t","l","e","d">>

MainUntitledSection == MainUntitled \o <<" ","S","e","c","t","i","o","n">>

\* the prefixes of stripped.lower().startswith((...))
main_title_starts ==
    { <<"s","e","c","t","i","o","n">>, <<"c","h","a","p","t","e","r">>, <<"p","a","r","t">>,
      <<"i","n","t","r","o","d","u","c","t","i","o","n">>,
      <<"c","o","n","c","l","u","s","i","o","n">> }

\* s.isupper(): s has a cased character and no lowercase one
IsUpper(s) ==
    /\ \E k \in 1..Len(s) : s[k] \in UpperLetters
    /\ \A k \in 1..Len(s) : s[k] \notin LowerLetters

\* is_title of extract_sections_from_pdf; tall holds the texts of the words of the
\* page whose height is above 12, and is empty where the words are not consulted
Main_is_title(stripped, tall) ==
    \/ /\ stripped # <<>>
       /\ Len(stripped) < main_title_max_length
       /\ (IsUpper(stripped) \/ stripped[1] \in Digits)
    \/ \E start \in main_title_starts : StartsWith(Lower(stripped), start)
    \/ stripped \in tall

\* the section the loop over the lines of a page starts with, and a title opens
MainSection(title, page_num) == [title |-> title, text |-> <<>>, page |-> page_num]

\* the section appended after the last line of a page: "If still Untitled, use
\* first few words of text as title"
MainTitled(section) ==
    IF section.title = MainUntitled
    THEN LET first_words ==
                 Join(<<" ">>, Prefix(Split(Strip(section.text)), main_first_words))
         IN  [section EXCEPT !.title = IF first_words # <<>> THEN first_words
                                       ELSE MainUntitledSection]
    ELSE section

\* score_section_relevance(text, persona, job) in units of
\* 1 / (10000 * max(len(keywords), 1)), a unit all sections of a run share
Main_score_section_relevance(text, p, j) ==
    LET keywords == Range(Split(Lower(p))) \cup Range(Split(Lower(j)))
        words    == Range(Split(Lower(text)))
    IN  6000 * Cardinality(keywords \cap words)
          + 4 * Max(Cardinality(keywords), 1) * Min(Len(text), main_full_length)

\* rank_sections(all_sections, persona, job): the ranked entries and, with their
\* scores and texts, the same entries "for subsections"
Main_rank_sections(sections_of, p, j) ==
    LET Scored(k) ==
            [i \in 1..Len(sections_of[k].sections) |->
                LET sec == sections_of[k].sections[i]
                IN  [document        |-> sections_of[k].document,
                     section_title   |-> sec.title,
                     importance_rank |-> 0,
                     page_number     |-> sec.page,
                     score           |-> Main_score_section_relevance(sec.text, p, j),
                     text            |-> sec.text]]
        scored == SortedDesc(Concat([k \in 1..Len(sections_of) |-> Scored(k)]), "score")
        top    == [i \in 1..Min(top_n, Len(scored)) |->
                      [scored[i] EXCEPT !.importance_rank = i]]
    IN  [ranked   |-> [i \in 1..Len(top) |->
                          [document        |-> top[i].document,
                           section_title   |-> top[i].section_title,
                           importance_rank |-> top[i].importance_rank,
                           page_number     |-> top[i].page_number]],
         top_full |-> top]

\* refined of main: the text of a top section, trimmed
Main_refined(text) ==
    IF Len(text) > main_refined_length
    THEN Prefix(Strip(text), main_refined_length) \o Ellipsis
    ELSE Strip(text)

\* output_data of main, without its processing_timestamp
Main_output_data(files, sections_of, p, j) ==
    LET ranking == Main_rank_sections(sections_of, p, j)
    IN  [metadata            |-> [input_documents |-> [k \in 1..Len(files) |-> files[k].name],
                                  persona         |-> p,
                                  job_to_be_done  |-> j],
         extracted_sections  |-> ranking.ranked,
         subsection_analysis |->
             [i \in 1..Len(ranking.top_full) |->
                 [document     |-> ranking.top_full[i].document,
                  refined_text |-> Main_refined(ranking.top_full[i].text),
                  page_number  |-> ranking.top_full[i].page_number]]]

\* all_sections[name] = found
Main_put(sections_of, name, found) ==
    IF \E k \in 1..Len(sections_of) : sections_of[k].document = name
    THEN [k \in 1..Len(sections_of) |->
             IF sections_of[k].document = name
             THEN [document |-> name, sections |-> found] ELSE sections_of[k]]
    ELSE Append(sections_of, [document |-> name, sections |-> found])

\* main up to the loop over pdf_files: without exactly one .json file it returns
MainStart ==
    /\ pc = "main" /\ program = "main"
    /\ pc' = IF json_files # 1 THEN "done" ELSE "main_pdf"
    /\ UNCHANGED <<variant, persona, job, documents, analyzed_docs, next_doc, result,
                   content, preview, pdf_vars>>

\* extract_sections_from_pdf(pdf) up to the loop over the pages: pdfplumber.open
MainExtract ==
    /\ pc = "main_pdf" /\ program = "main" /\ next_pdf <= Len(pdf_files)
    /\ pdf_sections' = <<>>
    /\ decoder' = "pdfplumber"
    /\ page_number' = 0
    /\ pc' = IF "pdfplumber" \in CurrentPdf.corrupt THEN "main_except" ELSE "main_page"
    /\ UNCHANGED <<variant, persona, job, documents, analyzed_docs, next_doc, result,
                   content, preview, program, pdf_files, json_files, next_pdf, lines,
                   line_no, current_section, section_text, document_data,
                   pdf_all_sections, output>>

\* one iteration of the loop over the pages, up to the loop over the lines.  With
\* pdfplumber a page without text is passed over and an exception leaves for the
\* except clause; with PyPDF2 an exception ends the extraction.
MainPage ==
    /\ pc = "main_page" /\ program = "main" /\ page_number < Len(CurrentPdf.pages)
    /\ page_number' = page_number + 1
    /\ LET page == CurrentPdf.pages[page_number + 1]
       IN  IF decoder \in page.unreadable
           THEN /\ pc' = IF decoder = "pdfplumber" THEN "main_except" ELSE "main_return"
                /\ UNCHANGED <<lines, line_no, current_section>>
           ELSE IF decoder = "pdfplumber" /\ page.text = <<>>
           THEN UNCHANGED <<pc, lines, line_no, current_section>>
           ELSE /\ lines' = SplitLines(page.text)
                /\ line_no' = 0
                /\ current_section' = MainSection(MainUntitled, page_number + 1)
                /\ pc' = "main_line"
    /\ UNCHANGED <<variant, persona, job, documents, analyzed_docs, next_doc, result,
                   content, preview, program, decoder, pdf_files, json_files, next_pdf,
                   section_text, pdf_sections, document_data, pdf_all_sections, output>>

\* one iteration of the loop over the lines of a page; the words of the page are
\* consulted with pdfplumber only
MainLine ==
    /\ pc = "main_line" /\ program = "main" /\ line_no < Len(lines)
    /\ line_no' = line_no + 1
    /\ LET line     == lines[line_no + 1]
           stripped == Strip(line)
           tall     == IF decoder = "pdfplumber"
                       THEN CurrentPdf.pages[page_number].tall ELSE {}
       IN  IF Main_is_title(stripped, tall)
           THEN /\ pdf_sections' = IF current_section.text # <<>>
                                   THEN Append(pdf_sections, current_section)
                                   ELSE pdf_sections
                /\ current_section' = MainSection(stripped, page_number)
           ELSE /\ current_section' = [current_section EXCEPT !.text = @ \o line \o <<" ">>]
                /\ UNCHANGED pdf_sections
    /\ UNCHANGED <<variant, persona, job, documents, analyzed_docs, next_doc, result, pc,
                   content, preview, program, decoder, pdf_files, json_files, next_pdf,
                   page_number, lines, section_text, document_data, pdf_all_sections,
                   output>>

\* after the last line of a page: the open section is appended if it has text
MainPageEnd ==
    /\ pc = "main_line" /\ program = "main" /\ line_no = Len(lines)
    /\ pdf_sections' = IF current_section.text # <<>>
                       THEN Append(pdf_sections, MainTitled(current_section))
                       ELSE pdf_sections
    /\ current_section' = IF current_section.text # <<>>
                          THEN MainTitled(current_section) ELSE current_section
    /\ pc' = "main_page"
    /\ UNCHANGED <<variant, persona, job, documents, analyzed_docs, next_doc, result,
                   content, preview, program, decoder, pdf_files, json_files, next_pdf,
                   page_number, lines, line_no, section_text, document_data,
                   pdf_all_sections, output>>

\* the except clause of extract_sections_from_pdf: "Fallback to PyPDF2", which
\* reads the file again from its first page, sections keeping what it holds
MainExcept ==
    /\ pc = "main_except" /\ program = "main"
    /\ decoder' = "PyPDF2"
    /\ page_number' = 0
    /\ pc' = IF "PyPDF2" \in CurrentPdf.corrupt THEN "main_return" ELSE "main_page"
    /\ UNCHANGED <<variant, persona, job, documents, analyzed_docs, next_doc, result,
                   content, preview, program, pdf_files, json_files, next_pdf, lines,
                   line_no, current_section, section_text, pdf_sections, document_data,
                   pdf_all_sections, output>>

\* extract_sections_from_pdf returns sections, after the last page or after the
\* exception of PyPDF2 is logged: all_sections[pdf.name] = sections
MainReturn ==
    /\ program = "main"
    /\ \/ pc = "main_return"
       \/ pc = "main_page" /\ page_number = Len(CurrentPdf.pages)
    /\ pdf_all_sections' = Main_put(pdf_all_sections, CurrentPdf.name, pdf_sections)
    /\ next_pdf' = next_pdf + 1
    /\ pc' = "main_pdf"
    /\ UNCHANGED <<variant, persona, job, documents, analyzed_docs, next_doc, result,
                   content, preview, program, decoder, pdf_files, json_files,
                   page_number, lines, line_no, current_section, section_text,
                   pdf_sections, document_data, output>>

\* main after the loop over pdf_files: rank_sections, the subsection analysis and
\* the output file
MainWrite ==
    /\ pc = "main_pdf" /\ program = "main" /\ next_pdf > Len(pdf_files)
    /\ output' = Main_output_data(pdf_files, pdf_all_sections, persona, job)
    /\ pc' = "done"
    /\ UNCHANGED <<variant, persona, job, documents, analyzed_docs, next_doc, result,
                   content, preview, program, decoder, pdf_files, json_files, next_pdf,
                   page_number, lines, line_no, current_section, section_text,
                   pdf_sections, document_data, pdf_all_sections>>

(***************************************************************************)
(* The PDF files: each a name, its pages and the decoders that cannot open *)
(* it; each page its text, the decoders whose extract_text() raises on it  *)
(* and the texts of its words of a height above 12                         *)
(***************************************************************************)
\* 'ABSTRACT\nThis paper studies graph neural networks for drug discovery.'
Text_abstract ==
    << "A","B","S","T","R","A","C","T","\n","T","h","i","s"," ","p","a","p","e","r"," ",
       "s","t","u","d","i","e","s"," ","g","r","a","p","h"," ","n","e","u","r","a","l",
       " ","n","e","t","w","o","r","k","s"," ","f","o","r"," ","d","r","u","g"," ","d",
       "i","s","c","o","v","e","r","y","." >>

\* 'INTRODUCTION\nDrug discovery is expensive and slow.'
Text_introduction ==
    << "I","N","T","R","O","D","U","C","T","I","O","N","\n","D","r","u","g"," ","d","i",
       "s","c","o","v","e","r","y"," ","i","s"," ","e","x","p","e","n","s","i","v","e",
       " ","a","n","d"," ","s","l","o","w","." >>

\* 'Nothing in these lines relates to anything at all, sorry.\nMore of it.\nMETHODS\nDrug discovery is expensive and slow, so researchers look for new methods that find good candidates much faster than before. It pays.\n\nIt pays twice.\n'
Text_untitled ==
    << "N","o","t","h","i","n","g"," ","i","n"," ","t","h","e","s","e"," ","l","i","n",
       "e","s"," ","r","e","l","a","t","e","s"," ","t","o"," ","a","n","y","t","h","i",
       "n","g"," ","a","t"," ","a","l","l",","," ","s","o","r","r","y",".","\n","M","o",
       "r","e"," ","o","f"," ","i","t",".","\n","M","E","T","H","O","D","S","\n","D",
       "r","u","g"," ","d","i","s","c","o","v","e","r","y"," ","i","s"," ","e","x","p",
       "e","n","s","i","v","e"," ","a","n","d"," ","s","l","o","w",","," ","s","o"," ",
       "r","e","s","e","a","r","c","h","e","r","s"," ","l","o","o","k"," ","f","o","r",
       " ","n","e","w"," ","m","e","t","h","o","d","s"," ","t","h","a","t"," ","f","i",
       "n","d"," ","g","o","o","d"," ","c","a","n","d","i","d","a","t","e","s"," ","m",
       "u","c","h"," ","f","a","s","t","e","r"," ","t","h","a","n"," ","b","e","f","o",
       "r","e","."," ","I","t"," ","p","a","y","s",".","\n","\n","I","t"," ","p","a",
       "y","s"," ","t","w","i","c","e",".","\n" >>

\* 'Overview\nshort body.\n2. Results\nRESULTS'
Text_overview ==
    << "O","v","e","r","v","i","e","w","\n","s","h","o","r","t"," ","b","o","d","y",".",
       "\n","2","."," ","R","e","s","u","l","t","s","\n","R","E","S","U","L","T","S" >>

\* ' \n'
Text_blank ==
    << " ","\n" >>

Page(text) == [text |-> text, unreadable |-> {}, tall |-> {}]

\* the two-page paper
Pdf_paper ==
    [name    |-> <<"p","a","p","e","r",".","p","d","f">>,
     pages   |-> << Page(Text_abstract), Page(Text_introduction) >>,
     corrupt |-> {}]

\* a file with a page without text, a page of blank lines and a page whose only
\* heading is set in tall letters
Pdf_notes ==
    [name    |-> <<"n","o","t","e","s",".","p","d","f">>,
     pages   |-> << Page(Text_untitled), Page(<<>>), Page(Text_blank),
                    [Page(Text_overview) EXCEPT !.tall = {<<"O","v","e","r","v","i","e","w">>}] >>,
     corrupt |-> {}]

\* a file whose second page pdfplumber cannot read
Pdf_scan ==
    [name    |-> <<"s","c","a","n",".","p","d","f">>,
     pages   |-> << Page(Text_abstract),
                    [Page(Text_untitled) EXCEPT !.unreadable = {"pdfplumber"}] >>,
     corrupt |-> {}]

\* a file only PyPDF2 can open, and there its second page of three cannot be read
Pdf_old ==
    [name    |-> <<"o","l","d",".","p","d","f">>,
     pages   |-> << Page(<<>>), [Page(Text_abstract) EXCEPT !.unreadable = {"PyPDF2"}],
                    Page(Text_untitled) >>,
     corrupt |-> {"pdfplumber"}]

\* a file no decoder can open
Pdf_broken ==
    [name    |-> <<"b","r","o","k","e","n",".","p","d","f">>,
     pages   |-> <<>>,
     corrupt |-> {"pdfplumber", "PyPDF2"}]

PdfPool == <<Pdf_paper, Pdf_notes, Pdf_scan, Pdf_old, Pdf_broken>>

\* the largest number of PDF files of a run
MaxPdfs == 2

\* up to MaxPdfs files of the pool, in any order
PdfBatches ==
    UNION {[1..n -> Range(PdfPool)] : n \in 0..MaxPdfs}

(***************************************************************************)
(* The PDF files are read by PDFProcessor, and the documents it returns    *)
(* analyzed and ranked, or they are read and ranked by main                *)
(***************************************************************************)
InitPdf ==
    /\ persona = P_researcher
    /\ job = J_find
    /\ documents = <<>>
    /\ analyzed_docs = <<>>
    /\ next_doc = 1
    /\ result = NoResult
    /\ content = <<>>
    /\ preview = NoPreview
    /\ pdf_files \in PdfBatches
    /\ next_pdf = 1
    /\ page_number = 0
    /\ lines = <<>>
    /\ line_no = 0
    /\ current_section = None
    /\ section_text = <<>>
    /\ pdf_sections = <<>>
    /\ document_data = None
    /\ pdf_all_sections = <<>>
    /\ output = None
    /\ \/ /\ program = "PDFProcessor"
          /\ decoder \in {"pdfplumber", "PyPDF2"}
          /\ variant \in {"lite", "full"}
          /\ json_files = 0
          /\ pc = "pdf"
       \/ /\ program = "main"
          /\ decoder = "pdfplumber"
          /\ variant = "lite"
          /\ json_files \in 0..2
          /\ \A a, b \in 1..Len(pdf_files) : a # b => pdf_files[a].name # pdf_files[b].name
          /\ pc = "main"

NextPdf ==
    \/ ProcessPdf
    \/ ExtractPage
    \/ IdentifyLine
    \/ IdentifySectionsReturn
    \/ ProcessPdfReturn
    \/ ProcessDone
    \/ LiteAnalyzeDocument
    \/ FullAnalyzeDocument
    \/ ReturnAnalyzed
    \/ LiteRankSections
    \/ FullRankSections
    \/ MainStart
    \/ MainExtract
    \/ MainPage
    \/ MainLine
    \/ MainPageEnd
    \/ MainExcept
    \/ MainReturn
    \/ MainWrite

SpecPdf == InitPdf /\ [][NextPdf]_vars

(***************************************************************************)
(* Properties of the ranked lists                                          *)
(***************************************************************************)
\* the sections rank_sections collects from one analyzed document, in order
CollectedSections(doc) ==
    IF variant = "lite" THEN Lite_collect_sections(doc, persona, job)
    ELSE Full_collect_sections(doc, persona, job)

\* the sub-units rank_sections collects from one analyzed document, in order
CollectedSubsections(doc) ==
    IF variant = "lite" THEN Lite_collect_doc_subsections(doc)
    ELSE Full_collect_doc_subsections(doc, persona, job)

\* all_sections and all_subsections of rank_sections
AllSections == Concat([d \in 1..Len(analyzed_docs) |-> CollectedSections(analyzed_docs[d])])

AllSubsections ==
    Concat([d \in 1..Len(analyzed_docs) |-> CollectedSubsections(analyzed_docs[d])])

\* the score a collected section is sorted by, and the score its entry reports
SectionFinalScore(x) ==
    IF variant = "lite" THEN Get(x, "final_relevance_score", 0) ELSE Get(x, "final_score", 0)

SectionReportedScore(x) ==
    IF variant = "lite" THEN SectionFinalScore(x) ELSE Round3FromE7(SectionFinalScore(x))

\* the score the entry of a collected sub-unit reports
SubsectionReportedScore(x) ==
    IF variant = "lite" THEN Get(x, "relevance_score", 0)
    ELSE Round3FromE7(Get(x, "final_score", 0))

\* the size limits of the two lists
SectionLimit == IF variant = "lite" THEN max_sections ELSE full_max_sections

SubsectionLimit == IF variant = "lite" THEN max_subsections ELSE full_max_subsections

\* C1: in each list the ranker returns (sections and sub-units) the i-th entry
\* has importance_rank i, so the ranks are exactly 1..len(list) without gaps
\* or duplicates, also when the list has been truncated to its size limit
C1_RanksAreDense ==
    pc = "done" =>
        \A list \in {result.sections, result.subsections} :
            \A i \in 1..Len(list) : list[i].importance_rank = i

\* both lists of the lightweight ranker have been truncated, and their last
\* entries carry the size limits as ranks
C1_BothListsTruncated ==
    /\ pc = "done" /\ variant = "lite"
    /\ Len(AllSections) > max_sections
    /\ Len(AllSubsections) > max_subsections
    /\ Len(result.sections) = max_sections
    /\ Len(result.subsections) = max_subsections
    /\ result.sections[max_sections].importance_rank = max_sections
    /\ result.subsections[max_subsections].importance_rank = max_subsections

\* C2: in each returned list the entries are in ascending importance_rank and
\* their relevance_score does not increase along the list
C2_ScoresNonIncreasing ==
    pc = "done" =>
        \A list \in {result.sections, result.subsections} :
            \A a, b \in 1..Len(list) :
                a < b => /\ list[a].importance_rank < list[b].importance_rank
                         /\ list[a].relevance_score >= list[b].relevance_score

\* SectionRanker has returned a truncated section list and a sub-unit list,
\* each with a strictly higher score at its head than at its end
C2_ScoresDecrease ==
    /\ pc = "done" /\ variant = "full"
    /\ Len(AllSections) > full_max_sections
    /\ Len(result.subsections) > 1
    /\ \A list \in {result.sections, result.subsections} :
           list[1].relevance_score > list[Len(list)].relevance_score

\* a list of at most limit entries whose scores are scores of candidates, and
\* that misses no candidate of a strictly higher score than one of its entries
IsTopOf(list, candidate_scores, limit) ==
    LET entries   == AsTuple([k \in 1..Len(list) |-> list[k].relevance_score])
        scores    == AsTuple(candidate_scores)
        Count(xs, P(_)) == Cardinality({k \in 1..Len(xs) : P(xs[k])})
    IN  /\ Len(list) <= limit
        /\ \A i \in 1..Len(entries) :
               LET Same(v)   == v = entries[i]
                   Higher(v) == v > entries[i]
               IN  /\ Count(entries, Same) <= Count(scores, Same)
                   /\ Count(entries, Higher) = Count(scores, Higher)

\* C3: the returned section list has at most max_sections (10) entries and the
\* returned sub-unit list at most max_subsections (12), for any number of
\* candidates, and no discarded candidate has a strictly higher score than a
\* retained one; SectionRanker does the same with its limits of 20 and 30
C3_TruncatedToTheTop ==
    pc = "done" =>
        LET sections    == AsTuple(AllSections)
            subsections == AsTuple(AllSubsections)
        IN  /\ IsTopOf(result.sections,
                       [k \in 1..Len(sections) |-> SectionReportedScore(sections[k])],
                       SectionLimit)
            /\ IsTopOf(result.subsections,
                       [k \in 1..Len(subsections) |->
                           SubsectionReportedScore(subsections[k])],
                       SubsectionLimit)

\* the lightweight ranker has discarded sections and sub-units, some of a
\* strictly lower score than every retained one
C3_LowerScoresDiscarded ==
    /\ pc = "done" /\ variant = "lite"
    /\ Len(result.sections) = max_sections
    /\ Len(result.subsections) = max_subsections
    /\ \E x \in Range(AsTuple(AllSections)) :
           SectionReportedScore(x) < result.sections[max_sections].relevance_score
    /\ \E x \in Range(AsTuple(AllSubsections)) :
           SubsectionReportedScore(x) < result.subsections[max_subsections].relevance_score

\* the collected sections with their origin: the index of the document in the
\* batch and the position of the section in the document
SectionOrigins ==
    Concat([d \in 1..Len(analyzed_docs) |->
               LET collected == CollectedSections(analyzed_docs[d])
               IN  [s \in 1..Len(collected) |->
                       [doc |-> d, position |-> s, section |-> collected[s]]]])

\* a is from an earlier document than b or, in the same document, at a lower
\* position
Earlier(a, b) == a.doc < b.doc \/ (a.doc = b.doc /\ a.position < b.position)

\* the place the claim gives a: after the sections of a higher final score and
\* after the earlier sections of the same final score
Place(a, all) ==
    1 + Cardinality({k \in 1..Len(all) :
                        \/ SectionFinalScore(all[k].section) > SectionFinalScore(a.section)
                        \/ /\ SectionFinalScore(all[k].section) = SectionFinalScore(a.section)
                           /\ Earlier(all[k], a)})

\* the entry is the one the ranker formats for the collected section x
IsEntryOf(entry, x) ==
    /\ entry.document = x.document
    /\ entry.relevance_score = SectionReportedScore(x)
    /\ IF variant = "lite"
       THEN /\ entry.section_title = x.section_title
            /\ entry.content_preview = x.content_preview
       ELSE /\ entry.section_title = x.title
            /\ entry.page_number = x.page

\* C4: of two sections with equal final score the one from the earlier
\* document (in the same document: at the lower position) comes first and gets
\* the smaller importance_rank: every section is at the place that counts the
\* sections of a higher score and the earlier sections of an equal score
C4_TiesInDocumentOrder ==
    pc = "done" =>
        LET all == AsTuple(SectionOrigins)
        IN  \A k \in 1..Len(all) :
                Place(all[k], all) <= Len(result.sections) =>
                    /\ IsEntryOf(result.sections[Place(all[k], all)], all[k].section)
                    /\ result.sections[Place(all[k], all)].importance_rank = Place(all[k], all)

\* the returned list holds two sections of equal final score from different
\* documents and two of equal final score and different titles from one document
C4_TiesAcrossAndWithinDocuments ==
    /\ pc = "done"
    /\ LET all == AsTuple(SectionOrigins)
           Tied(a, b) == /\ SectionFinalScore(a.section) = SectionFinalScore(b.section)
                         /\ Place(a, all) < Place(b, all)
                         /\ Place(b, all) <= Len(result.sections)
       IN  /\ \E a, b \in Range(all) : a.doc < b.doc /\ Tied(a, b)
           /\ \E a, b \in Range(all) :
                  /\ a.doc = b.doc /\ a.position < b.position /\ Tied(a, b)
                  /\ a.section.title # b.section.title

\* rank_sections of the variant
RankSections(analyzed_documents) ==
    IF variant = "lite" THEN Lite_rank_sections(analyzed_documents, persona, job)
    ELSE Full_rank_sections(analyzed_documents, persona, job)

\* C5: the ranked lists are the same for every order in which the analyzed
\* documents arrive at the ranker: rank_sections returns the same entries with
\* the same importance_rank for every permutation of the analyzed documents
C5_ArrivalOrderIrrelevant ==
    pc = "done" =>
        \A f \in [1..Len(analyzed_docs) -> 1..Len(analyzed_docs)] :
            (\A a, b \in DOMAIN f : a # b => f[a] # f[b]) =>
                RankSections([k \in 1..Len(analyzed_docs) |-> analyzed_docs[f[k]]]) = result

(***************************************************************************)
(* Properties of the relevance scores                                      *)
(***************************************************************************)
\* the analyzed sections of the analyzed documents
AnalyzedSections ==
    UNION {Range(analyzed_docs[d].analyzed_sections) : d \in 1..Len(analyzed_docs)}

\* the text of a section that is scored and the relevance of it to a
\* reference, as _analyze_section_fast and _analyze_section call for them
ScoredText(section) ==
    IF variant = "lite" THEN Lower(section.title) \o <<" ">> \o Lower(section.content)
    ELSE section.content \o <<" ">> \o section.title

Relevance(text, reference_text) ==
    IF variant = "lite" THEN Lite_calculate_keyword_relevance(text, Lower(reference_text))
    ELSE Full_calculate_relevance(text, reference_text)

\* C6: every relevance value lies in [0, 1]: the persona score and the job score
\* of a section (in units of 1/10^4), its combined score (1/10^5), and the
\* relevance_score of every entry of the two ranked lists (1/10^3)
C6_RelevanceInUnitInterval ==
    /\ \A section \in AnalyzedSections :
           /\ section.persona_relevance \in 0..10000
           /\ section.job_relevance \in 0..10000
           /\ section.combined_relevance \in 0..100000
    /\ \A list \in {result.sections, result.subsections} :
           \A i \in 1..Len(list) : list[i].relevance_score \in 0..1000

\* a section whose overlap and keyword boost add up to more than 1 has the
\* persona score 1, and has been ranked with a positive relevance_score
C6_BoostAboveOne ==
    /\ pc = "done" /\ variant = "lite"
    /\ \E section \in AnalyzedSections :
           /\ Lite_quality_boost(ScoredText(section)) > 10000
           /\ section.persona_relevance = 10000
    /\ result.sections # <<>>
    /\ result.sections[1].relevance_score > 0

\* C7: the combined relevance of every section is persona score * 0.4 + job
\* score * 0.6, the persona score being the relevance of the section's text to
\* the persona alone and the job score the relevance of the same text to the
\* job alone
C7_CombinedIsWeightedSum ==
    pc = "rank" =>
        \A section \in AnalyzedSections :
            /\ section.combined_relevance
                   = section.persona_relevance * 4 + section.job_relevance * 6
            /\ section.persona_relevance = Relevance(ScoredText(section), persona)
            /\ section.job_relevance = Relevance(ScoredText(section), job)

\* a section has been scored with different positive persona and job scores
C7_ScoresDiffer ==
    /\ pc = "rank"
    /\ \E section \in AnalyzedSections :
           /\ section.persona_relevance > 0
           /\ section.job_relevance > section.persona_relevance
           /\ section.combined_relevance > 0

\* C8: with an empty persona the persona relevance of every section is 0, with
\* an empty job its job relevance is 0, and with both empty its combined
\* relevance is 0; the analysis goes through
C8_EmptyReferenceScoresZero ==
    \A section \in AnalyzedSections :
        /\ persona = <<>> => section.persona_relevance = 0
        /\ job = <<>> => section.job_relevance = 0
        /\ (persona = <<>> /\ job = <<>>) => section.combined_relevance = 0

\* the lightweight analyzer has analyzed the documents for an empty persona and
\* a job that gives a positive score to a section with a positive keyword boost
C8_EmptyPersonaAnalyzed ==
    /\ pc = "rank" /\ variant = "lite" /\ persona = <<>> /\ job # <<>>
    /\ \E section \in AnalyzedSections :
           /\ section.persona_relevance = 0
           /\ section.job_relevance > 0
           /\ Lite_quality_boost(ScoredText(section)) > 0

(***************************************************************************)
(* Properties of the content previews                                      *)
(***************************************************************************)
\* max_length of the preview function of a ranker
PreviewMaxLength(ranker) ==
    IF ranker = "full" THEN full_preview_max_length ELSE lite_preview_max_length

\* C9: the content_preview of a non-empty content is the content itself, the
\* content being within max_length, or it ends with "..." and is strictly
\* shorter than the content
C9_PreviewEqualOrShorter ==
    \A ranker \in preview.done :
        content # <<>> =>
            \/ Len(content) <= PreviewMaxLength(ranker) /\ preview[ranker] = content
            \/ EndsWith(preview[ranker], Ellipsis) /\ Len(preview[ranker]) < Len(content)

\* the last index (0-based) of s with a character of the class, -1 if none
RFindIn(s, class) ==
    LET hits == {i \in 1..Len(s) : s[i] \in class}
    IN  IF hits = {} THEN 0 - 1 ELSE (CHOOSE i \in hits : \A k \in hits : k <= i) - 1

\* C10: the preview of a content longer than max_length is the content cut
\* after the last sentence end of its first max_length characters if that is
\* past 70% of max_length, else cut at the last whitespace of them if that is
\* past 80% of max_length, else cut at max_length; "..." is appended in all
\* three cases
C10_PreviewCutAtSentenceEnd ==
    \A ranker \in preview.done :
        LET max_length   == PreviewMaxLength(ranker)
            window       == Prefix(content, max_length)
            sentence_end == RFindIn(window, SentenceEnds)
            whitespace   == RFindIn(window, Whitespace)
        IN  Len(content) > max_length =>
                preview[ranker] =
                    (IF sentence_end * 10 > max_length * 7
                     THEN Prefix(content, sentence_end + 1)
                     ELSE IF whitespace * 10 > max_length * 8
                     THEN Prefix(content, whitespace)
                     ELSE window) \o Ellipsis

(***************************************************************************)
(* Properties of the segmentation                                          *)
(***************************************************************************)
\* the accumulated text of an emitted section: content in PDFProcessor, text in main
EmittedContent(section) ==
    IF "content" \in DOMAIN section THEN section.content ELSE section.text

\* the entries of the ranked sections list whose title is title
RankedAs(title) ==
    {k \in 1..Len(result.sections) : result.sections[k].section_title = title}

\* C11: the two-page paper, read by PDFProcessor and analyzed and ranked by the
\* lightweight analyzer and ranker for the persona 'drug discovery researcher' and
\* the job 'find methods for drug discovery', yields a ranked list that holds
\* ABSTRACT and INTRODUCTION, ABSTRACT not below INTRODUCTION, with the
\* importance_rank values {1, 2}
C11_PaperYieldsBothSections ==
    (program = "PDFProcessor" /\ variant = "lite" /\ pdf_files = <<Pdf_paper>> /\ pc = "done")
        => /\ \E a \in RankedAs(<<"A","B","S","T","R","A","C","T">>) :
              \E i \in RankedAs(<<"I","N","T","R","O","D","U","C","T","I","O","N">>) :
                  result.sections[a].importance_rank <= result.sections[i].importance_rank
           /\ {result.sections[k].importance_rank : k \in 1..Len(result.sections)} = {1, 2}

\* C12: every section the segmenter emits has a content of more than 50
\* characters; a shorter candidate is never emitted
C12_EmittedSectionsAreSubstantial ==
    \A k \in 1..Len(pdf_sections) :
        Len(EmittedContent(pdf_sections[k])) > min_content_length

\* C13: no emitted section keeps a generic placeholder title ('Document Content',
\* 'Untitled'): a section opened without a heading line is titled by the first
\* words of its content
C13_NoPlaceholderTitleEmitted ==
    \A k \in 1..Len(pdf_sections) :
        pdf_sections[k].title \notin {DefaultSection(1).title, MainUntitled}

\* no decoder can open the file
Undecodable(file) == {"pdfplumber", "PyPDF2"} \subseteq file.corrupt

\* C14: when every file of the batch fails to decode, the run ends in a failure
\* and writes no output; when a file is processed, output is produced
C14_NoOutputWithoutDocuments ==
    (program = "main" /\ pc = "done" /\ json_files = 1 /\ pdf_files # <<>>)
        => IF \A k \in 1..Len(pdf_files) : Undecodable(pdf_files[k])
           THEN output = None
           ELSE output # None

(***************************************************************************)
(* Properties of the error handling                                        *)
(***************************************************************************)
\* analysing or scoring this section raises
SectionRaises(section) ==
    \/ IsNone(Get(section, "content", <<>>))
    \/ IsNone(Get(section, "title", <<>>))
    \/ IF variant = "lite" THEN IsNone(Get(section, "position", 0))
                            ELSE IsNone(Get(section, "page", 1))

\* the title under which the ranked list reports the section
ReportedTitle(section) ==
    IF variant = "lite" THEN Lite_clean_title(section.title) ELSE section.title

\* C15: an exception raised while one document or one section is analysed or
\* scored skips that unit only: every other section of the batch is in the
\* ranked list of the finished run
C15_OnlyTheFailingUnitSkipped ==
    pc = "done" /\ program = "none" =>
        \A d \in 1..Len(documents) :
            \A s \in 1..Len(documents[d].sections) :
                LET section == documents[d].sections[s]
                IN  ~SectionRaises(section) =>
                        \E k \in 1..Len(result.sections) :
                            /\ result.sections[k].document = documents[d].filename
                            /\ result.sections[k].section_title = ReportedTitle(section)


(***************************************************************************)
(* Properties of the reported pages and positions                          *)
(***************************************************************************)
\* the pages on which the segmenter opened the sections of the batch that the
\* entry can stand for: those of its document with its title
OpenedOn(entry) ==
    UNION {{documents[d].sections[s].page :
               s \in {t \in 1..Len(documents[d].sections) :
                         ReportedTitle(documents[d].sections[t]) = entry.section_title}} :
           d \in {e \in 1..Len(documents) : documents[e].filename = entry.document}}

\* C16: every entry of the ranked sections list reports as page_number the page
\* on which the segmenter opened its section, and every entry of the ranked
\* subsections list reports the section_title and the page_number of its parent
\* section
C16_EntriesReportTheOpeningPage ==
    pc = "done" /\ program = "PDFProcessor" =>
        /\ \A k \in 1..Len(result.sections) :
              result.sections[k].page_number \in OpenedOn(result.sections[k])
        /\ \A k \in 1..Len(result.subsections) :
              result.subsections[k].page_number \in OpenedOn(result.subsections[k])

(***************************************************************************)
(* Properties of _identify_sections                                        *)
(***************************************************************************)
\* the text that extract_text() gave for page n of the file of this name
ExtractedText(filename, n) ==
    (CHOOSE f \in Range(pdf_files) : f.name = filename).pages[n].text

\* the calls of _identify_sections(text, page_num) made for the documents read so
\* far, each with the sections it returned
IdentifyCalls ==
    UNION {{[call     |-> <<d, k>>,
             text     |-> ExtractedText(documents[d].filename,
                                        documents[d].pages[k].page_number),
             page_num |-> documents[d].pages[k].page_number,
             returned |-> documents[d].pages[k].sections] :
               k \in 1..Len(documents[d].pages)} :
           d \in 1..Len(documents)}

\* C17: _identify_sections keeps no state between its calls: two calls with the same
\* page text and the same page number return the same sequence of sections
C17_SegmentationDeterministic ==
    program = "PDFProcessor" =>
        \A a, b \in IdentifyCalls :
            (a.text = b.text /\ a.page_num = b.page_num) => a.returned = b.returned

\* the same page text was segmented twice under the same page number, and
\* sections were found in it
C17_SamePageSegmentedTwice ==
    /\ program = "PDFProcessor"
    /\ \E a, b \in IdentifyCalls :
          /\ a.call # b.call
          /\ a.text = b.text /\ a.page_num = b.page_num
          /\ a.returned # <<>>
          /\ a.returned = b.returned

\* C18: every section the segmenter emits carries, as the position that
\* _score_section_optimized reads, its 0-based index in the sequence of the
\* sections emitted for its document
C18_PositionIsIndexInDocument ==
    program = "PDFProcessor" =>
        \A d \in 1..Len(documents) :
            \A k \in 1..Len(documents[d].sections) :
                Get(documents[d].sections[k], "position", 0) = k - 1

\* C19: a line that is neither blank nor a heading is kept when it is read.  In
\* _identify_sections it opens the default section 'Document Content', as the
\* first line of its content, if no section is open, and else it is appended to
\* the lines of the open section; in extract_sections_from_pdf it is appended to
\* the text of the open section, which is 'Untitled' until the first title.
C19_BodyLinesKept ==
    [][/\ (pc = "line" /\ program = "PDFProcessor" /\ line_no' = line_no + 1) =>
            LET line == Strip(lines[line_no + 1])
            IN  (line # <<>> /\ ~IsHeading(lines, line_no)) =>
                    IF current_section = None
                    THEN /\ current_section' = DefaultSection(page_number)
                         /\ section_text' = <<line>>
                    ELSE /\ current_section' = current_section
                         /\ section_text' = Append(section_text, line)
       /\ (pc = "main_line" /\ program = "main" /\ line_no' = line_no + 1) =>
            LET line == lines[line_no + 1]
                tall == IF decoder = "pdfplumber"
                        THEN CurrentPdf.pages[page_number].tall ELSE {}
            IN  (Strip(line) # <<>> /\ ~Main_is_title(Strip(line), tall)) =>
                    /\ current_section'.title = current_section.title
                    /\ current_section'.text = current_section.text \o line \o <<" ">>
      ]_vars

\* the default section is open and holds two body lines in the order in which
\* they were read, the first of them being the line that opened it
C19_DefaultSectionHoldsTwoLines ==
    /\ pc = "line" /\ program = "PDFProcessor"
    /\ current_section # None
    /\ current_section.title = DefaultSection(page_number).title
    /\ line_no = 2
    /\ section_text = <<Strip(lines[1]), Strip(lines[2])>>

\* C20: a page for which extract_text() gives no text adds no section to its
\* document, whether the file is read by PDFProcessor, by extract_sections_from_pdf
\* with pdfplumber or by its fallback to PyPDF2
C20_EmptyPageYieldsNoSection ==
    /\ (program = "PDFProcessor" /\ pc \in {"page", "line"}) =>
           \A k \in 1..Len(document_data.sections) :
               CurrentPdf.pages[document_data.sections[k].page].text # <<>>
    /\ (program = "main" /\ pc \in {"main_page", "main_line", "main_except", "main_return"}) =>
           \A k \in 1..Len(pdf_sections) :
               CurrentPdf.pages[pdf_sections[k].page].text # <<>>

(***************************************************************************)
(* Properties of the extraction                                            *)
(***************************************************************************)
\* the file whose extraction has just ended
LastPdf == pdf_files[next_pdf - 1]

\* the pages of the file that the decoder can read
ReadablePages(file) ==
    {n \in 1..Len(file.pages) : decoder \notin file.pages[n].unreadable}

\* the page has a line that extract_sections_from_pdf does not take for a title,
\* so that a section of the page gets text
HasMainText(file, n) ==
    \E k \in 1..Len(SplitLines(file.pages[n].text)) :
        ~Main_is_title(Strip(SplitLines(file.pages[n].text)[k]),
                       IF decoder = "pdfplumber" THEN file.pages[n].tall ELSE {})

\* C21: a page that cannot be read adds no section and does not end the
\* extraction of its file: the sections of every other readable page are emitted,
\* in the order of the pages
C21_UnreadablePageSkippedAlone ==
    /\ (program = "PDFProcessor" /\ pc = "pdf" /\ next_pdf > 1
            /\ decoder \notin LastPdf.corrupt) =>
           LET document == documents[Len(documents)]
           IN  /\ {document.pages[k].page_number : k \in 1..Len(document.pages)}
                      = {n \in ReadablePages(LastPdf) : LastPdf.pages[n].text # <<>>}
               /\ \A k \in 1..(Len(document.pages) - 1) :
                      document.pages[k].page_number < document.pages[k + 1].page_number
               /\ document.sections
                      = Concat([k \in 1..Len(document.pages) |-> document.pages[k].sections])
    /\ (program = "main" /\ pc = "main_pdf" /\ next_pdf > 1
            /\ decoder \notin LastPdf.corrupt) =>
           /\ \A n \in ReadablePages(LastPdf) :
                  (LastPdf.pages[n].text # <<>> /\ HasMainText(LastPdf, n)) =>
                      \E k \in 1..Len(pdf_sections) : pdf_sections[k].page = n
           /\ \A k \in 1..Len(pdf_sections) :
                  pdf_sections[k].page \in ReadablePages(LastPdf)

\* C29: the list extract_sections_from_pdf returns for a file holds no section
\* twice: no two of its entries are the same section of the same page
C29_NoSectionTwice ==
    (program = "main" /\ pc = "main_pdf" /\ next_pdf > 1) =>
        \A k, l \in 1..Len(pdf_sections) :
            k # l => pdf_sections[k] # pdf_sections[l]

(***************************************************************************)
(* Properties of the base score and the boosts                             *)
(***************************************************************************)
\* the words of a text that the relevance is computed from: its lower-cased
\* alphabetic words of 3 letters or more
WordSet(text) == Range(FindWords(Lower(text)))

\* |A \cap B| / |A \cup B| in units of 1/10^4, and 0 if A or B is empty
Jaccard(A, B) ==
    IF A = {} \/ B = {} THEN 0
    ELSE (Cardinality(A \cap B) * 10000) \div Cardinality(A \cup B)

\* the relevance of a text to a reference with the Jaccard ratio as base score
JaccardRelevance(text, reference_text) ==
    LET base == Jaccard(WordSet(text), WordSet(reference_text))
    IN  IF variant = "full" THEN base
        ELSE IF WordSet(text) = {} \/ WordSet(reference_text) = {} THEN 0
        ELSE Min(base + Lite_quality_boost(text), 10000)

\* C22: the base score of the relevance of a text to a reference is the Jaccard
\* ratio of their word sets, and 0 if one of the sets is empty: the persona and
\* the job score of every section are computed from that base
C22_BaseScoreIsJaccard ==
    pc = "rank" =>
        \A section \in AnalyzedSections :
            /\ section.persona_relevance = JaccardRelevance(ScoredText(section), persona)
            /\ section.job_relevance = JaccardRelevance(ScoredText(section), job)

\* the number of occurrences of the keyword in the text
Occurrences(text, keyword) ==
    Cardinality({i \in 0..(Len(text) - Len(keyword)) :
                    \A k \in 1..Len(keyword) : text[i + k] = keyword[k]})

\* the sum over the categories of min(occurrences * 0.08, 0.3), occurrences the
\* number of occurrences of the keywords of the category in the text, in units
\* of 1/10^4
OccurrenceBoost(text) ==
    Sum([c \in 1..Len(universal_keywords) |->
            Min(Sum([k \in 1..Len(universal_keywords[c]) |->
                        Occurrences(text, universal_keywords[c][k])]) * 800,
                3000)])

\* C23: the category boost of a text is the sum over the categories of
\* min(occurrences of the keywords of the category in the text * 0.08, 0.3), and
\* the relevance returned is min(base score + boost, 1.0)
C23_BoostCountsOccurrences ==
    (pc = "rank" /\ variant = "lite") =>
        \A section \in AnalyzedSections :
            \A reference_text \in {persona, job} :
                LET text       == ScoredText(section)
                    text_words == WordSet(text)
                    ref_words  == WordSet(reference_text)
                    relevance  == IF reference_text = persona
                                  THEN section.persona_relevance
                                  ELSE section.job_relevance
                IN  (text_words # {} /\ ref_words # {}) =>
                        relevance = Min(Lite_base_score(text_words, ref_words)
                                            + OccurrenceBoost(text), 10000)

\* the document type under which the ranker scores the sections of the document
DocType(doc) == Get(Get(doc, "document_features", <<>>), "document_type", "general")

\* the document-type bonus that enters the score of the sections of the document
\* (lightweight ranker: in units of 1/100; SectionRanker: in units of 1/10)
TypeBonus(doc) ==
    IF variant = "lite" THEN Lite_get_document_type_boost(DocType(doc), job)
    ELSE Full_calculate_document_type_bonus(DocType(doc), persona)

\* the job names a term that goes with the type of the document
TypeMatchesJob(doc) ==
    CASE DocType(doc) = "instructional" -> AnyIn(Boost_instructional_words, Lower(job))
      [] DocType(doc) = "comprehensive" -> AnyIn(Boost_comprehensive_words, Lower(job))
      [] DocType(doc) = "reference" -> AnyIn(Boost_reference_words, Lower(job))
      [] DocType(doc) = "overview" -> AnyIn(Boost_overview_words, Lower(job))
      [] OTHER -> FALSE

\* C24: the document-type bonus of a section's score has two values only: one
\* fixed positive increment for a document whose type matches the job, and 0 for
\* a document whose type does not
C24_TypeBonusIsZeroOrFixed ==
    pc = "rank" =>
        \A a, b \in 1..Len(analyzed_docs) :
            LET bonus_a == TypeBonus(analyzed_docs[a])
                bonus_b == TypeBonus(analyzed_docs[b])
            IN  /\ bonus_a = 0 \/ bonus_b = 0 \/ bonus_a = bonus_b
                /\ (variant = "lite" /\ ~TypeMatchesJob(analyzed_docs[a])) => bonus_a = 0

(***************************************************************************)
(* Properties of the subsections                                           *)
(***************************************************************************)
\* the text that the ranked entry of a subsection shows
ShownText(subsection) ==
    IF variant = "lite" THEN Lite_clean_content(subsection.content)
    ELSE subsection.refined_text

\* the number of whitespace-separated words of a subsection
WordCount(subsection) ==
    IF variant = "lite" THEN subsection.word_count ELSE Len(Split(subsection.text))

\* the subsections of the analyzed sections that the ranked entry can stand for,
\* each with the overall score of its parent section (in units of 1/10^5)
ParentsOf(entry) ==
    UNION {UNION {{[overall    |-> analyzed_docs[d].analyzed_sections[i].combined_relevance,
                    word_count |-> WordCount(analyzed_docs[d].analyzed_sections[i].subsections[k])] :
                      k \in {u \in 1..Len(analyzed_docs[d].analyzed_sections[i].subsections) :
                                ShownText(analyzed_docs[d].analyzed_sections[i].subsections[u])
                                    = entry.refined_text}} :
                  i \in {s \in 1..Len(analyzed_docs[d].analyzed_sections) :
                            ReportedTitle(analyzed_docs[d].analyzed_sections[s])
                                = entry.section_title}} :
           d \in {e \in 1..Len(analyzed_docs) : analyzed_docs[e].filename = entry.document}}

\* C25: the relevance score of a ranked subsection is the overall score of its
\* parent section times a quality factor of at most 1.0 that is 1.0 from 20 words
\* on: it does not exceed the parent's overall score (rounded as the entry is),
\* and is equal to it for a subsection of 20 words or more
C25_SubsectionScoreFromParent ==
    pc = "done" =>
        \A k \in 1..Len(result.subsections) :
            /\ ParentsOf(result.subsections[k]) # {}
            /\ \A parent \in ParentsOf(result.subsections[k]) :
                   /\ result.subsections[k].relevance_score <= Round3FromE7(parent.overall * 100)
                   /\ parent.word_count >= 20 =>
                          result.subsections[k].relevance_score
                              = Round3FromE7(parent.overall * 100)

\* C26: the subsections that the lightweight analyzer extracts from a section are
\* sentences of at least 10 words, at most 5 of them, in the order of the text,
\* each with the number of its whitespace-separated words as word_count
C26_SentenceSubsections ==
    variant = "lite" =>
        \A d \in 1..Len(analyzed_docs) :
            \A i \in 1..Len(analyzed_docs[d].analyzed_sections) :
                LET section     == analyzed_docs[d].analyzed_sections[i]
                    subsections == section.subsections
                    sentences   == SplitSentences(Lower(section.content))
                IN  /\ Len(subsections) <= 5
                    /\ \A k \in 1..Len(subsections) :
                           /\ subsections[k].word_count >= 10
                           /\ subsections[k].word_count = Len(Split(subsections[k].content))
                           /\ subsections[k].position + 1 \in 1..Len(sentences)
                           /\ subsections[k].content
                                  = Strip(sentences[subsections[k].position + 1])
                    /\ \A k \in 1..(Len(subsections) - 1) :
                           subsections[k].position < subsections[k + 1].position

\* a section with more than 5 sentences of 10 words or more has been analyzed: 5
\* subsections were kept, and a shorter sentence between two of them was not
C26_LongSectionCapped ==
    /\ variant = "lite"
    /\ \E d \in 1..Len(analyzed_docs) :
           \E i \in 1..Len(analyzed_docs[d].analyzed_sections) :
               LET section   == analyzed_docs[d].analyzed_sections[i]
                   sentences == SplitSentences(Lower(section.content))
               IN  /\ Len(section.subsections) = 5
                   /\ Cardinality({k \in 1..Len(sentences) :
                                      Len(Split(Strip(sentences[k]))) >= 10}) > 5
                   /\ \E k \in 1..4 :
                          section.subsections[k + 1].position
                              > section.subsections[k].position + 1

\* the subsections that can enter the ranking of the lightweight ranker: of every
\* analyzed section its first two subsections, those of them of 15 words or more
SubsectionCandidates ==
    UNION {UNION {{[d |-> d, i |-> i, k |-> k] :
                      k \in {u \in 1..Len(analyzed_docs[d].analyzed_sections[i].subsections) :
                                /\ u <= 2
                                /\ analyzed_docs[d].analyzed_sections[i].subsections[u].word_count
                                       >= 15}} :
                  i \in 1..Len(analyzed_docs[d].analyzed_sections)} :
           d \in 1..Len(analyzed_docs)}

\* the document, section title, text and page that the ranked list shows for the
\* subsection: the page is the page_number of the section, 1 if it has none
ShownSubsection(c) ==
    LET section == analyzed_docs[c.d].analyzed_sections[c.i]
    IN  [document      |-> analyzed_docs[c.d].filename,
         section_title |-> ReportedTitle(section),
         refined_text  |-> ShownText(section.subsections[c.k]),
         page_number   |-> Get(section, "page_number", 1)]

\* what the entry of the ranked list shows of its subsection
ShownEntry(entry) ==
    [document      |-> entry.document,
     section_title |-> entry.section_title,
     refined_text  |-> entry.refined_text,
     page_number   |-> entry.page_number]

\* C30: in the lightweight ranker every ranked subsection is one of the first two
\* subsections of its section and has 15 words or more, and no subsection is
\* ranked twice: the ranked list shows nothing more often than there are such
\* subsections to show it for, hence at most 2 entries for a section
C30_FirstTwoOfFifteenWords ==
    (variant = "lite" /\ pc = "done") =>
        \A k \in 1..Len(result.subsections) :
            Cardinality({l \in 1..Len(result.subsections) :
                            ShownEntry(result.subsections[l])
                                = ShownEntry(result.subsections[k])})
                <= Cardinality({c \in SubsectionCandidates :
                                   ShownSubsection(c) = ShownEntry(result.subsections[k])})

\* a ranked list with one subsection of a section whose first subsection has fewer
\* than 15 words and whose third has more: only the second was ranked
C30_SecondOfThreeRanked ==
    /\ variant = "lite" /\ pc = "done"
    /\ Len(analyzed_docs) = 1
    /\ Len(analyzed_docs[1].analyzed_sections) = 1
    /\ LET subsections == analyzed_docs[1].analyzed_sections[1].subsections
       IN  /\ Len(subsections) >= 3
           /\ subsections[1].word_count < 15
           /\ subsections[2].word_count >= 15
           /\ subsections[3].word_count >= 15
           /\ Len(result.subsections) = 1
           /\ result.subsections[1].refined_text = ShownText(subsections[2])

(***************************************************************************)
(* Properties of the keywords                                              *)
(***************************************************************************)
\* the tokens of the text whose keywords are extracted for the section, in order
\* and with repetitions: its lower-cased words of 3 letters or more that are no
\* stop words
KeywordTokens(section) ==
    LET NotStopLite(w) == w \notin stop_words
        NotStopFull(w) == w \notin Full_stop_words
    IN  IF variant = "lite"
        THEN SelectSeq(FindWords(ScoredText(section)), NotStopLite)
        ELSE SelectSeq(FindWords(Lower(Full_clean_text(section.content))), NotStopFull)

\* max_keywords for the keywords of a section
MaxKeywords == IF variant = "lite" THEN lite_max_keywords ELSE full_max_keywords

\* keywords are the first MaxKeywords of the distinct tokens, ordered by falling
\* frequency and, among tokens of the same frequency, by first occurrence
IsTopKeywords(keywords, tokens) ==
    LET Count(w)     == Cardinality({i \in 1..Len(tokens) : tokens[i] = w})
        First(w)     == CHOOSE i \in 1..Len(tokens) :
                            tokens[i] = w /\ \A j \in 1..(i - 1) : tokens[j] # w
        Before(v, w) == Count(v) > Count(w) \/ (Count(v) = Count(w) /\ First(v) < First(w))
    IN  /\ Len(keywords) <= MaxKeywords
        /\ \A k \in 1..Len(keywords) :
               /\ keywords[k] \in Range(tokens)
               /\ Len(keywords[k]) >= 3
               /\ keywords[k] = Lower(keywords[k])
        /\ \A k \in 1..(Len(keywords) - 1) : Before(keywords[k], keywords[k + 1])
        /\ \A w \in Range(tokens) \ Range(keywords) :
               /\ Len(keywords) = MaxKeywords
               /\ \A k \in 1..Len(keywords) : Before(keywords[k], w)

C28_InputsUnchanged ==
    [][(pc = "analyze" \/ pc = "rank") =>
           (/\ documents' = documents
            /\ pc = "rank" => analyzed_docs' = analyzed_docs)
      ]_vars

\* a batch has been analyzed and ranked: the ranked list has an entry for a
\* section of the first document, the analyzed copy of that document has the
\* results, and the document itself has none of their keys
C28_RankedFromCopies ==
    /\ pc = "done" /\ program = "none"
    /\ result.sections # <<>>
    /\ result.sections[1].document = documents[1].filename
    /\ "analyzed_sections" \in DOMAIN analyzed_docs[1]
    /\ "keywords" \in DOMAIN analyzed_docs[1].analyzed_sections[1]
    /\ DOMAIN documents[1] = {"filename", "pages", "full_text", "sections"}
    /\ DOMAIN documents[1].sections[1] = {"title", "page", "content", "start_line"}

====
